---- MODULE Spec2Model ----
(***************************************************************************)
(* Job queue of the YouTube transcription backend: the SQLite job table    *)
(* (backend/database.py), the background worker (backend/worker.py) and    *)
(* the WebSocket connection manager (backend/websocket_manager.py).        *)
(*                                                                         *)
(* SQL NULL and Python None in a TEXT column are the reserved string NULL. *)
(* A parsed JSON value is PyNone or a dict [tag |-> "dict", items |-> s],  *)
(* s the sequence of <<key, value>> pairs in insertion order; JSON text is *)
(* a string built the way json.dumps builds it.                            *)
(***************************************************************************)
EXTENDS Integers, Sequences, FiniteSets, TLC

\* ------------------------------------------------------------- bounds
MaxJobs == 1
MaxConns == 3
MaxLive == 3
MaxCrashes == 1
MaxStoreOps == 6
MaxStoreJobs == 2
MaxSubmitted == 2
MaxCallOps == 4
MaxFaults == 1
MaxLoops == 2

\* -------------------------------------------------- program constants
MAX_RETRIES == 3
INITIAL_RETRY_DELAY == 5

NULL == "NULL"
JobIds ==
    {"j" \o ToString(i) : i \in 1..(IF MaxJobs > MaxSubmitted THEN MaxJobs ELSE MaxSubmitted)}

Statuses == {"pending", "processing", "completed", "failed"}

\* Faulty variant of Falsy: only None counts as missing (video_id is None)
Falsy_none_only(s) == s = NULL

\* Python truthiness of an Optional[str]: None and "" are falsy.
Falsy(s) == s = NULL \/ s = ""

\* ---------------------------------------------------------------- JSON
PyNone == [tag |-> "None"]
Dict(items) == [tag |-> "dict", items |-> items]

\* Python truthiness of an Optional[dict]: None and {} are falsy.
FalsyDict(d) == d = PyNone \/ d.items = <<>>

JsonValue(v) == IF v = NULL THEN "null" ELSE "\"" \o v \o "\""

RECURSIVE JsonItems(_)
JsonItems(items) ==
    IF items = <<>> THEN ""
    ELSE "\"" \o items[1][1] \o "\": " \o JsonValue(items[1][2])
         \o (IF Len(items) > 1 THEN ", " ELSE "") \o JsonItems(Tail(items))

\* json.dumps of a dict of string keys and string-or-None values
JsonDumps(d) == "{" \o JsonItems(d.items) \o "}"

\* The payloads a caller passes as create_job's metadata
MetadataInputs ==
    { PyNone, Dict(<<>>), Dict(<< <<"source", "api">> >>) }

\* Locations the processor reports
TranscriptPaths == {"/out/abc.md", "/out/abc.txt"}
OutputDirs == {"/out"}

\* str.replace(".md", ".json") on the transcript paths
ReplaceMdJson(p) == IF p = "/out/abc.md" THEN "/out/abc.json" ELSE p

\* f"{output_dir}/metadata.json"
MetadataFile(dir) == dir \o "/metadata.json"


OutputPathsDict(transcript_md, transcript_json, metadata_file) ==
    Dict(<< <<"transcript_md", transcript_md>>,
            <<"transcript_json", transcript_json>>,
            <<"metadata", metadata_file>> >>)

\* Every value json.loads can be asked to parse back in this model
JsonUniverse ==
    (MetadataInputs \ {PyNone})
    \cup { OutputPathsDict(a, b, c) :
                a \in TranscriptPaths \cup {NULL},
                b \in {ReplaceMdJson(p) : p \in TranscriptPaths} \cup {NULL},
                c \in {MetadataFile(dir) : dir \in OutputDirs} \cup {NULL} }

\* json.loads raises JSONDecodeError on a text that is no JSON document
JsonDecodable(text) == \E d \in JsonUniverse : JsonDumps(d) = text

\* json.loads on a decodable text
JsonLoads(text) == CHOOSE d \in JsonUniverse : JsonDumps(d) = text

\* ------------------------------------------------------------ JobStore
\* The jobs table: a sequence of rows in insertion (rowid) order.

HasRow(tbl, job_id) == \E i \in 1..Len(tbl) : tbl[i].id = job_id

RowOf(tbl, job_id) == tbl[CHOOSE i \in 1..Len(tbl) : tbl[i].id = job_id]

\* UPDATE jobs SET ... WHERE id = ?: set(row) on the row of job_id, if any
UpdateWhereId(tbl, job_id, set(_)) ==
    [i \in 1..Len(tbl) |-> IF tbl[i].id = job_id THEN set(tbl[i]) ELSE tbl[i]]

\* A JSON TEXT column as read_job hands it out
ParseColumn(col) ==
    IF Falsy(col) THEN PyNone
    ELSE IF JsonDecodable(col) THEN JsonLoads(col)
    ELSE PyNone

row_to_dict(row) ==
    [row EXCEPT !.output_paths = ParseColumn(row.output_paths),
                !.metadata = ParseColumn(row.metadata)]

\* Faulty variant of read_job: the WHERE clause is lost, the first row is
\* returned when no row has the id
read_job_first_row(tbl, job_id) ==
    IF HasRow(tbl, job_id) THEN row_to_dict(RowOf(tbl, job_id))
    ELSE IF tbl # <<>> THEN row_to_dict(tbl[1])
    ELSE PyNone

\* read_job: the job dict, or PyNone when no row has the id
read_job(tbl, job_id) ==
    IF HasRow(tbl, job_id) THEN row_to_dict(RowOf(tbl, job_id)) ELSE PyNone

\* Faulty variant of create_job: INSERT OR REPLACE, a taken id gets a new row
create_job_or_replace(tbl, job_id, video_id, video_title, playlist_id, channel_id, metadata) ==
    LET metadata_json == IF FalsyDict(metadata) THEN NULL ELSE JsonDumps(metadata)
        row == [id |-> job_id,
                video_id |-> video_id,
                video_title |-> video_title,
                playlist_id |-> playlist_id,
                channel_id |-> channel_id,
                status |-> "pending",
                progress |-> 0,
                created_at |-> "CURRENT_TIMESTAMP",
                started_at |-> NULL,
                completed_at |-> NULL,
                error_message |-> NULL,
                retry_count |-> 0,
                output_paths |-> NULL,
                metadata |-> metadata_json]
    IN IF HasRow(tbl, job_id)
       THEN [i \in 1..Len(tbl) |-> IF tbl[i].id = job_id THEN row ELSE tbl[i]]
       ELSE Append(tbl, row)

\* create_job, its INSERT: a new row, unless the id has a row already (the
\* PRIMARY KEY is violated, sqlite3.IntegrityError is raised, nothing is written)
create_job(tbl, job_id, video_id, video_title, playlist_id, channel_id, metadata) ==
    LET metadata_json == IF FalsyDict(metadata) THEN NULL ELSE JsonDumps(metadata)
    IN IF HasRow(tbl, job_id) THEN tbl
       ELSE Append(tbl,
         [id |-> job_id,
          video_id |-> video_id,
          video_title |-> video_title,
          playlist_id |-> playlist_id,
          channel_id |-> channel_id,
          status |-> "pending",
          progress |-> 0,
          created_at |-> "CURRENT_TIMESTAMP",
          started_at |-> NULL,
          completed_at |-> NULL,
          error_message |-> NULL,
          retry_count |-> 0,
          output_paths |-> NULL,
          metadata |-> metadata_json])

\* Faulty variant of update_job_status: 'completed' does not force progress to 100
update_job_status_completed_keeps_progress(tbl, job_id, status, progress, error_message) ==
    IF status = "processing" /\ progress > 0 THEN
        UpdateWhereId(tbl, job_id,
            LAMBDA r : [r EXCEPT !.status = status, !.progress = progress,
                                 !.started_at = "CURRENT_TIMESTAMP"])
    ELSE IF status = "completed" THEN
        UpdateWhereId(tbl, job_id,
            LAMBDA r : [r EXCEPT !.status = status,
                                 !.completed_at = "CURRENT_TIMESTAMP"])
    ELSE IF status = "failed" THEN
        UpdateWhereId(tbl, job_id,
            LAMBDA r : [r EXCEPT !.status = status, !.error_message = error_message,
                                 !.retry_count = r.retry_count + 1])
    ELSE
        UpdateWhereId(tbl, job_id,
            LAMBDA r : [r EXCEPT !.status = status, !.progress = progress])

\* Faulty variant of update_job_status: a re-queue to pending resets retry_count
update_job_status_requeue_resets(tbl, job_id, status, progress, error_message) ==
    IF status = "processing" /\ progress > 0 THEN
        UpdateWhereId(tbl, job_id,
            LAMBDA r : [r EXCEPT !.status = status, !.progress = progress,
                                 !.started_at = "CURRENT_TIMESTAMP"])
    ELSE IF status = "completed" THEN
        UpdateWhereId(tbl, job_id,
            LAMBDA r : [r EXCEPT !.status = status, !.progress = 100,
                                 !.completed_at = "CURRENT_TIMESTAMP"])
    ELSE IF status = "failed" THEN
        UpdateWhereId(tbl, job_id,
            LAMBDA r : [r EXCEPT !.status = status, !.error_message = error_message,
                                 !.retry_count = r.retry_count + 1])
    ELSE
        UpdateWhereId(tbl, job_id,
            LAMBDA r : [r EXCEPT !.status = status, !.progress = progress,
                                 !.retry_count = IF status = "pending" THEN 0
                                                 ELSE r.retry_count])

\* Faulty variant of update_job_status: 'failed' stops counting at three
update_job_status_failed_saturates(tbl, job_id, status, progress, error_message) ==
    IF status = "processing" /\ progress > 0 THEN
        UpdateWhereId(tbl, job_id,
            LAMBDA r : [r EXCEPT !.status = status, !.progress = progress,
                                 !.started_at = "CURRENT_TIMESTAMP"])
    ELSE IF status = "completed" THEN
        UpdateWhereId(tbl, job_id,
            LAMBDA r : [r EXCEPT !.status = status, !.progress = 100,
                                 !.completed_at = "CURRENT_TIMESTAMP"])
    ELSE IF status = "failed" THEN
        UpdateWhereId(tbl, job_id,
            LAMBDA r : [r EXCEPT !.status = status, !.error_message = error_message,
                                 !.retry_count = IF r.retry_count < 3
                                                 THEN r.retry_count + 1 ELSE 3])
    ELSE
        UpdateWhereId(tbl, job_id,
            LAMBDA r : [r EXCEPT !.status = status, !.progress = progress])

\* Faulty variant of update_job_status: the re-queue to pending counts as well
update_job_status_requeue_counts(tbl, job_id, status, progress, error_message) ==
    IF status = "processing" /\ progress > 0 THEN
        UpdateWhereId(tbl, job_id,
            LAMBDA r : [r EXCEPT !.status = status, !.progress = progress,
                                 !.started_at = "CURRENT_TIMESTAMP"])
    ELSE IF status = "completed" THEN
        UpdateWhereId(tbl, job_id,
            LAMBDA r : [r EXCEPT !.status = status, !.progress = 100,
                                 !.completed_at = "CURRENT_TIMESTAMP"])
    ELSE IF status = "failed" THEN
        UpdateWhereId(tbl, job_id,
            LAMBDA r : [r EXCEPT !.status = status, !.error_message = error_message,
                                 !.retry_count = r.retry_count + 1])
    ELSE
        UpdateWhereId(tbl, job_id,
            LAMBDA r : [r EXCEPT !.status = status, !.progress = progress,
                                 !.retry_count = IF status = "pending"
                                                 THEN r.retry_count + 1
                                                 ELSE r.retry_count])

\* Faulty variant of update_job_status: a write to pending clears error_message
update_job_status_requeue_clears_error(tbl, job_id, status, progress, error_message) ==
    IF status = "processing" /\ progress > 0 THEN
        UpdateWhereId(tbl, job_id,
            LAMBDA r : [r EXCEPT !.status = status, !.progress = progress,
                                 !.started_at = "CURRENT_TIMESTAMP"])
    ELSE IF status = "completed" THEN
        UpdateWhereId(tbl, job_id,
            LAMBDA r : [r EXCEPT !.status = status, !.progress = 100,
                                 !.completed_at = "CURRENT_TIMESTAMP"])
    ELSE IF status = "failed" THEN
        UpdateWhereId(tbl, job_id,
            LAMBDA r : [r EXCEPT !.status = status, !.error_message = error_message,
                                 !.retry_count = r.retry_count + 1])
    ELSE
        UpdateWhereId(tbl, job_id,
            LAMBDA r : [r EXCEPT !.status = status, !.progress = progress,
                                 !.error_message = IF status = "pending" THEN NULL
                                                   ELSE r.error_message])

\* Faulty variant of update_job_status: 'failed' stores the progress argument too
update_job_status_failed_sets_progress(tbl, job_id, status, progress, error_message) ==
    IF status = "processing" /\ progress > 0 THEN
        UpdateWhereId(tbl, job_id,
            LAMBDA r : [r EXCEPT !.status = status, !.progress = progress,
                                 !.started_at = "CURRENT_TIMESTAMP"])
    ELSE IF status = "completed" THEN
        UpdateWhereId(tbl, job_id,
            LAMBDA r : [r EXCEPT !.status = status, !.progress = 100,
                                 !.completed_at = "CURRENT_TIMESTAMP"])
    ELSE IF status = "failed" THEN
        UpdateWhereId(tbl, job_id,
            LAMBDA r : [r EXCEPT !.status = status, !.progress = progress,
                                 !.error_message = error_message,
                                 !.retry_count = r.retry_count + 1])
    ELSE
        UpdateWhereId(tbl, job_id,
            LAMBDA r : [r EXCEPT !.status = status, !.progress = progress])

\* Faulty variant of update_job_status: 'completed' clears error_message
update_job_status_completed_clears_error(tbl, job_id, status, progress, error_message) ==
    IF status = "processing" /\ progress > 0 THEN
        UpdateWhereId(tbl, job_id,
            LAMBDA r : [r EXCEPT !.status = status, !.progress = progress,
                                 !.started_at = "CURRENT_TIMESTAMP"])
    ELSE IF status = "completed" THEN
        UpdateWhereId(tbl, job_id,
            LAMBDA r : [r EXCEPT !.status = status, !.progress = 100,
                                 !.error_message = NULL,
                                 !.completed_at = "CURRENT_TIMESTAMP"])
    ELSE IF status = "failed" THEN
        UpdateWhereId(tbl, job_id,
            LAMBDA r : [r EXCEPT !.status = status, !.error_message = error_message,
                                 !.retry_count = r.retry_count + 1])
    ELSE
        UpdateWhereId(tbl, job_id,
            LAMBDA r : [r EXCEPT !.status = status, !.progress = progress])

update_job_status(tbl, job_id, status, progress, error_message) ==
    IF status = "processing" /\ progress > 0 THEN
        UpdateWhereId(tbl, job_id,
            LAMBDA r : [r EXCEPT !.status = status, !.progress = progress,
                                 !.started_at = "CURRENT_TIMESTAMP"])
    ELSE IF status = "completed" THEN
        UpdateWhereId(tbl, job_id,
            LAMBDA r : [r EXCEPT !.status = status, !.progress = 100,
                                 !.completed_at = "CURRENT_TIMESTAMP"])
    ELSE IF status = "failed" THEN
        UpdateWhereId(tbl, job_id,
            LAMBDA r : [r EXCEPT !.status = status, !.error_message = error_message,
                                 !.retry_count = r.retry_count + 1])
    ELSE
        UpdateWhereId(tbl, job_id,
            LAMBDA r : [r EXCEPT !.status = status, !.progress = progress])

\* Faulty variant of list_jobs: the newest row first (ORDER BY created_at DESC)
list_jobs_newest_first(tbl, status) ==
    LET rows == SelectSeq(tbl, LAMBDA r : r.status = status)
    IN [i \in 1..Len(rows) |-> rows[Len(rows) + 1 - i]]

\* list_jobs(status): SELECT * FROM jobs WHERE status = ? has no ORDER BY and
\* no index on status, so SQLite scans the table in rowid order, which is
\* the order of insertion
list_jobs(tbl, status) == SelectSeq(tbl, LAMBDA r : r.status = status)

\* Faulty variant of list_pending_jobs: failed jobs are listed as well
list_pending_jobs_and_failed(tbl) ==
    SelectSeq(tbl, LAMBDA r : r.status \in {"pending", "failed"})

\* list_pending_jobs(): list_jobs(status="pending")
list_pending_jobs(tbl) == list_jobs(tbl, "pending")

\* Faulty variant of update_output_paths: the two transcript paths are swapped
update_output_paths_swapped(tbl, job_id, transcript_md, transcript_json, metadata_file) ==
    LET output_paths_json ==
            JsonDumps(OutputPathsDict(transcript_json, transcript_md, metadata_file))
    IN UpdateWhereId(tbl, job_id, LAMBDA r : [r EXCEPT !.output_paths = output_paths_json])

\* Faulty variant of update_output_paths: a field passed as None keeps the
\* value stored before
update_output_paths_merging(tbl, job_id, transcript_md, transcript_json, metadata_file) ==
    UpdateWhereId(tbl, job_id,
        LAMBDA r :
            LET old == ParseColumn(r.output_paths)
                kept(k) == IF old = PyNone THEN NULL ELSE old.items[k][2]
                merged == OutputPathsDict(
                    IF transcript_md # NULL THEN transcript_md ELSE kept(1),
                    IF transcript_json # NULL THEN transcript_json ELSE kept(2),
                    IF metadata_file # NULL THEN metadata_file ELSE kept(3))
            IN [r EXCEPT !.output_paths = JsonDumps(merged)])

update_output_paths(tbl, job_id, transcript_md, transcript_json, metadata_file) ==
    LET output_paths_json ==
            JsonDumps(OutputPathsDict(transcript_md, transcript_json, metadata_file))
    IN UpdateWhereId(tbl, job_id, LAMBDA r : [r EXCEPT !.output_paths = output_paths_json])

\* Faulty variant of RecoverLoop: retry_count > max_retries instead of >=
RECURSIVE RecoverLoop_gt(_, _, _)
RecoverLoop_gt(acc, orphaned, max_retries) ==
    IF orphaned = <<>> THEN acc
    ELSE
        LET job_id == orphaned[1].id
            retry_count == orphaned[1].retry_count
            step ==
                IF retry_count > max_retries THEN
                    [tbl |-> UpdateWhereId(acc.tbl, job_id,
                                LAMBDA r : [r EXCEPT !.status = "failed",
                                    !.error_message = "Max retries exceeded after worker crash"]),
                     recovered_jobs |-> acc.recovered_jobs]
                ELSE
                    [tbl |-> UpdateWhereId(acc.tbl, job_id,
                                LAMBDA r : [r EXCEPT !.status = "pending", !.progress = 0,
                                                     !.error_message = NULL]),
                     recovered_jobs |-> Append(acc.recovered_jobs, job_id)]
        IN RecoverLoop_gt(step, Tail(orphaned), max_retries)

\* Faulty variant of RecoverLoop: a re-queued job is charged one retry
RECURSIVE RecoverLoop_counts_crash(_, _, _)
RecoverLoop_counts_crash(acc, orphaned, max_retries) ==
    IF orphaned = <<>> THEN acc
    ELSE
        LET job_id == orphaned[1].id
            retry_count == orphaned[1].retry_count
            step ==
                IF retry_count >= max_retries THEN
                    [tbl |-> UpdateWhereId(acc.tbl, job_id,
                                LAMBDA r : [r EXCEPT !.status = "failed",
                                    !.error_message = "Max retries exceeded after worker crash"]),
                     recovered_jobs |-> acc.recovered_jobs]
                ELSE
                    [tbl |-> UpdateWhereId(acc.tbl, job_id,
                                LAMBDA r : [r EXCEPT !.status = "pending", !.progress = 0,
                                                     !.error_message = NULL,
                                                     !.retry_count = @ + 1]),
                     recovered_jobs |-> Append(acc.recovered_jobs, job_id)]
        IN RecoverLoop_counts_crash(step, Tail(orphaned), max_retries)

\* recover_orphaned_jobs, the loop over the rows found in 'processing':
\* acc is [tbl, recovered_jobs] so far
RECURSIVE RecoverLoop(_, _, _)
RecoverLoop(acc, orphaned, max_retries) ==
    IF orphaned = <<>> THEN acc
    ELSE
        LET job_id == orphaned[1].id
            retry_count == orphaned[1].retry_count
            step ==
                IF retry_count >= max_retries THEN
                    [tbl |-> UpdateWhereId(acc.tbl, job_id,
                                LAMBDA r : [r EXCEPT !.status = "failed",
                                    !.error_message = "Max retries exceeded after worker crash"]),
                     recovered_jobs |-> acc.recovered_jobs]
                ELSE
                    [tbl |-> UpdateWhereId(acc.tbl, job_id,
                                LAMBDA r : [r EXCEPT !.status = "pending", !.progress = 0,
                                                     !.error_message = NULL]),
                     recovered_jobs |-> Append(acc.recovered_jobs, job_id)]
        IN RecoverLoop(step, Tail(orphaned), max_retries)

\* Faulty variant of recover_orphaned_jobs: the query leaves out the jobs
\* that have used up their retries, so they stay in 'processing'
recover_orphaned_jobs_skips_exhausted(tbl, max_retries) ==
    RecoverLoop([tbl |-> tbl, recovered_jobs |-> <<>>],
                SelectSeq(tbl, LAMBDA r : r.status = "processing"
                                          /\ r.retry_count < max_retries),
                max_retries)

\* recover_orphaned_jobs: [tbl |-> the table after the sweep,
\*                         recovered_jobs |-> the returned list]
recover_orphaned_jobs(tbl, max_retries) ==
    RecoverLoop([tbl |-> tbl, recovered_jobs |-> <<>>],
                SelectSeq(tbl, LAMBDA r : r.status = "processing"),
                max_retries)

\* ------------------------------------------------------ ConnectionManager
Conns == {"ws" \o ToString(i) : i \in 1..MaxConns}

RECURSIVE RemoveFirst(_, _)
RemoveFirst(list, x) ==
    IF list = <<>> THEN <<>>
    ELSE IF list[1] = x THEN Tail(list)
    ELSE <<list[1]>> \o RemoveFirst(Tail(list), x)

InList(list, x) == \E i \in 1..Len(list) : list[i] = x

\* Faulty variant of connect: the connection is appended before accept()
connect_before_accept(active, websocket, accepts) == Append(active, websocket)

\* connect(websocket): await websocket.accept(), then append; when accept()
\* raises the append is not reached
connect(active, websocket, accepts) ==
    IF accepts THEN Append(active, websocket) ELSE active

\* Faulty variant of disconnect: drops the last occurrence, not the first
disconnect_last_occurrence(active, websocket) ==
    IF \E i \in 1..Len(active) : active[i] = websocket THEN
        LET k == CHOOSE i \in 1..Len(active) :
                     /\ active[i] = websocket
                     /\ \A m \in (i + 1)..Len(active) : active[m] # websocket
        IN SubSeq(active, 1, k - 1) \o SubSeq(active, k + 1, Len(active))
    ELSE active

\* disconnect(websocket): list.remove of the first occurrence, if present
disconnect(active, websocket) ==
    IF InList(active, websocket) THEN RemoveFirst(active, websocket) ELSE active

RECURSIVE DisconnectAll(_, _)
DisconnectAll(active, disconnected) ==
    IF disconnected = <<>> THEN active
    ELSE DisconnectAll(disconnect(active, disconnected[1]), Tail(disconnected))

\* broadcast's first loop, for connection in self.active_connections, when
\* send_json raises on exactly the connections in raising: acc is
\* [attempted, delivered, disconnected] so far
RECURSIVE SendLoop(_, _, _)
SendLoop(acc, rest, raising) ==
    IF rest = <<>> THEN acc
    ELSE
        LET connection == rest[1]
            step ==
                IF connection \in raising THEN
                    [acc EXCEPT !.attempted = Append(@, connection),
                                !.disconnected = Append(@, connection)]
                ELSE
                    [acc EXCEPT !.attempted = Append(@, connection),
                                !.delivered = Append(@, connection)]
        IN SendLoop(step, Tail(rest), raising)

\* Faulty variant of broadcast: no try/except around send_json, so the first
\* exception ends the loop and leaves broadcast
broadcast_aborts_on_first_failure(active, raising) ==
    LET first == IF \E i \in 1..Len(active) : active[i] \in raising
                 THEN CHOOSE i \in 1..Len(active) :
                        /\ active[i] \in raising
                        /\ \A k \in 1..(i - 1) : active[k] \notin raising
                 ELSE 0
    IN IF first = 0 THEN
           [active |-> active, attempted |-> active, delivered |-> active,
            raised |-> FALSE]
       ELSE
           [active |-> active, attempted |-> SubSeq(active, 1, first),
            delivered |-> SubSeq(active, 1, first - 1), raised |-> TRUE]

\* broadcast(message): [active |-> the live list afterwards,
\*   attempted |-> the connections send_json was called on, in order,
\*   delivered |-> those whose send_json returned,
\*   raised |-> whether an exception leaves broadcast]
broadcast(active, raising) ==
    LET sent == SendLoop([attempted |-> <<>>, delivered |-> <<>>, disconnected |-> <<>>],
                         active, raising)
    IN [active |-> DisconnectAll(active, sent.disconnected),
        attempted |-> sent.attempted,
        delivered |-> sent.delivered,
        raised |-> FALSE]

\* ----------------------------------------------------------- Processor
\* What extractor.process_video hands back (ProcessingResult), or raises.
SuccessResults ==
    { [status |-> "success", transcript_path |-> "/out/abc.md",
       output_dir |-> "/out", error_message |-> NULL] }

FailedResults ==
    { [status |-> "failed", transcript_path |-> NULL, output_dir |-> NULL,
       error_message |-> "WhisperX transcription failed"] }

\* A result that is None (process_video itself never returns it)
NoResult ==
    [status |-> "None", transcript_path |-> NULL, output_dir |-> NULL,
     error_message |-> NULL]

ProcessingResults == SuccessResults \cup FailedResults

\* str(e) of an exception process_video lets out
ExceptionTexts == {"WhisperX transcription failed"}

\* --------------------------------------------------------------- state
VARIABLES
    jobs,                \* the jobs table
    active_connections,  \* ConnectionManager.active_connections
    running,             \* BackgroundWorker.running
    pc,                  \* where the poll loop task is
    after,               \* where it goes on after the broadcast under way
    current_job_id,      \* BackgroundWorker.current_job_id
    result,              \* _process_job's local result
    error_msg,           \* the error text handed to _handle_job_failure
    fail_retry_count,    \* _handle_job_failure's local retry_count
    last,                \* the last JobStore or hub call of a caller, and what it returned
    calls,               \* per job: how often process_video was invoked for it
    requeues,            \* per job: how often the failure handler wrote it back to pending
    wrote_processing,    \* the jobs the worker has written as processing
    crashes,             \* how often the process was killed
    stop_state,          \* where the caller of stop() is
    stop_job,            \* the job that was in process when stop() was called
    stop_kind,           \* what stop() found: a running loop, none yet, or one ended
    stop_seen,           \* every stop_kind so far
    handler_from,        \* where _handle_job_failure was called from: else or except
    faults,              \* how many JobStore calls of the worker have raised
    reported,            \* a failed status of this attempt was stored and then broadcast
    delay,               \* the seconds _handle_job_failure sleeps before the re-queue
    bcast,               \* the broadcast() call that is suspended in a send_json
    other_loops,         \* poll loop tasks alive besides the one pc follows
    stamps,              \* writes of started_at and completed_at in this attempt
    written,             \* the worker's status write that is not broadcast yet
    sent,                \* the last job_update event of the process() call under way
    ops                  \* how many JobStore calls the callers of StoreSpec have made

vars ==
    <<jobs, active_connections, running, pc, after, current_job_id, result,
      error_msg, fail_retry_count, last, calls, requeues, wrote_processing, crashes,
      stop_state, stop_job, stop_kind, stop_seen, handler_from, faults, delay, bcast, other_loops, reported, stamps,
      written, sent, ops>>

workerVars == <<running, pc, after, current_job_id, result, error_msg, fail_retry_count>>
ghostVars == <<calls, requeues, wrote_processing>>
stopVars == <<stop_state, stop_job, stop_kind, stop_seen>>

NoWrite == [status |-> "none"]
NoStamps == [started_at |-> 0, completed_at |-> 0]
NoEvent == [type |-> "none"]
NoBroadcast == [state |-> "none"]

NoCall == [op |-> "none"]
Unset == [status |-> "unset", transcript_path |-> NULL, output_dir |-> NULL,
          error_message |-> NULL]

Init ==
    /\ jobs = <<>>
    /\ active_connections = <<>>
    /\ running = FALSE
    /\ pc = "stopped"
    /\ after = "ret"
    /\ current_job_id = NULL
    /\ result = Unset
    /\ error_msg = NULL
    /\ fail_retry_count = 0
    /\ last = NoCall
    /\ calls = [j \in JobIds |-> 0]
    /\ requeues = [j \in JobIds |-> 0]
    /\ wrote_processing = {}
    /\ crashes = 0
    /\ stop_state = "idle"
    /\ stop_job = NULL
    /\ stop_kind = "none"
    /\ stop_seen = {}
    /\ handler_from = "none"
    /\ faults = 0
    /\ reported = FALSE
    /\ delay = 0
    /\ bcast = NoBroadcast
    /\ other_loops = 0
    /\ stamps = NoStamps
    /\ written = NoWrite
    /\ sent = NoEvent
    /\ ops = 0

\* The points where the poll loop task is suspended in an await (a sleep,
\* the processor thread, a send of the broadcast just made) or does not
\* run: only there do other callers on the event loop get to act.
AwaitPcs ==
    {"stopped", "ready", "idle", "w10", "w30", "w40", "w50", "invoke", "proc",
     "w70", "w80", "w90", "check", "backoff", "ret"}

AtAwait == pc \in AwaitPcs

\* --------------------------------------------------------- submission
\* A new id, as uuid.uuid4() gives one
FreshId(tbl) == "j" \o ToString(Len(tbl) + 1)

\* The video ids jobs are submitted with ("" is no usable id)
VideoIds == {"abc", ""}

\* POST /jobs/add-selected: create_job(job_id=job_id, video_id=video_id)
CreateJob ==
    /\ AtAwait
    /\ Len(jobs) < MaxJobs
    /\ \E video_id \in VideoIds :
         jobs' = create_job(jobs, FreshId(jobs), video_id, NULL, NULL, NULL, PyNone)
    /\ UNCHANGED <<crashes, ops, faults, delay, bcast, other_loops, reported, handler_from, stamps, stopVars, written, sent, active_connections, workerVars, ghostVars, last>>

\* The host runs the sweep while no poll loop task runs (at startup)
RecoverOrphaned ==
    /\ pc = "stopped"
    /\ jobs' = recover_orphaned_jobs(jobs, MAX_RETRIES).tbl
    /\ UNCHANGED <<crashes, ops, faults, delay, bcast, other_loops, reported, handler_from, stamps, stopVars, written, sent, active_connections, workerVars, ghostVars, last>>

\* The process is killed: the task and the connections are gone, the table stays
Crash ==
    /\ pc # "stopped"
    /\ crashes < MaxCrashes
    /\ crashes' = crashes + 1
    /\ pc' = "stopped"
    /\ running' = FALSE
    /\ after' = "ret"
    /\ current_job_id' = NULL
    /\ result' = Unset
    /\ error_msg' = NULL
    /\ fail_retry_count' = 0
    /\ active_connections' = <<>>
    /\ written' = NoWrite
    /\ sent' = NoEvent
    /\ handler_from' = "none"
    /\ stamps' = NoStamps
    /\ reported' = FALSE
    /\ delay' = 0
    /\ other_loops' = 0
    /\ UNCHANGED <<jobs, ghostVars, last, ops, stopVars, faults, bcast>>

\* -------------------------------------------------------------- Worker
\* start(): running = True and the poll loop task is created
Start ==
    /\ pc = "stopped"
    /\ running' = TRUE
    /\ pc' = "ready"
    /\ UNCHANGED <<crashes, ops, faults, delay, bcast, other_loops, reported, handler_from, stamps, stopVars, written, sent, last, jobs, active_connections, after, current_job_id, result, error_msg,
                   fail_retry_count, ghostVars>>

\* stop(): running = False; the loop ends at its next test of the flag
Stop ==
    /\ AtAwait
    /\ running
    /\ running' = FALSE
    /\ UNCHANGED <<crashes, ops, faults, delay, bcast, other_loops, reported, handler_from, stamps, stopVars, written, sent, last, jobs, active_connections, pc, after, current_job_id, result, error_msg,
                   fail_retry_count, ghostVars>>

\* The task is scheduled for the first time, or asyncio.sleep(5) is over
Wake ==
    /\ pc \in {"ready", "idle"}
    /\ pc' = "poll"
    /\ UNCHANGED <<crashes, ops, faults, delay, bcast, other_loops, reported, handler_from, stamps, stopVars, written, sent, last, jobs, active_connections, running, after, current_job_id, result,
                   error_msg, fail_retry_count, ghostVars>>

\* Faulty variant of KeepRunning: while True
KeepRunning_ignores_stop(flag) == TRUE

\* while self.running
KeepRunning(flag) == flag

\* _process_loop: one test of the flag and one poll
Poll ==
    /\ pc = "poll"
    /\ LET pending_jobs == list_pending_jobs(jobs)
       IN IF ~KeepRunning(running) THEN
              /\ pc' = "stopped"
              /\ UNCHANGED current_job_id
          ELSE IF pending_jobs # <<>> THEN
              /\ current_job_id' = pending_jobs[1].id
              /\ pc' = "begin"
          ELSE
              /\ pc' = "idle"
              /\ UNCHANGED current_job_id
    /\ UNCHANGED <<crashes, ops, faults, delay, bcast, other_loops, reported, handler_from, stamps, stopVars, written, sent, last, jobs, active_connections, running, after, result, error_msg,
                   fail_retry_count, ghostVars>>

\* What a status write of the worker left in the row of the job
WriteOf(tbl, job_id) ==
    IF HasRow(tbl, job_id)
    THEN [job_id |-> job_id, status |-> RowOf(tbl, job_id).status,
          progress |-> RowOf(tbl, job_id).progress]
    ELSE NoWrite

\* Faulty variant of JobUpdate: the event leaves the progress out (sent as 0)
JobUpdate_without_progress(job) ==
    [type |-> "job_update", job |-> [job EXCEPT !.progress = 0]]

\* The event _broadcast_update sends: {"type": "job_update", "job": job}
JobUpdate(job) == [type |-> "job_update", job |-> job]

\* What update_job_status(job_id, status, progress) stamps: started_at =
\* CURRENT_TIMESTAMP when status is processing and progress > 0,
\* completed_at = CURRENT_TIMESTAMP when status is completed
Stamp(st, status, progress) ==
    [started_at |-> IF status = "processing" /\ progress > 0
                    THEN st.started_at + 1 ELSE st.started_at,
     completed_at |-> IF status = "completed"
                      THEN st.completed_at + 1 ELSE st.completed_at]

\* _update_progress, its write
update_progress(tbl, job_id, status, progress, error_message) ==
    IF ~Falsy(error_message)
    THEN update_job_status(tbl, job_id, status, 0, error_message)
    ELSE update_job_status(tbl, job_id, status, progress, NULL)

\* _process_job up to its first write: the job is read and checked, then
\* written as failed (no video_id) or as processing at 0
Begin ==
    /\ pc = "begin"
    /\ LET job == read_job(jobs, current_job_id)
       IN IF job = PyNone THEN
              /\ pc' = "ret"
              /\ UNCHANGED <<jobs, after, wrote_processing, written, stamps>>
          ELSE IF Falsy(job.video_id) THEN
              /\ jobs' = update_progress(jobs, current_job_id, "failed", 0, "Missing video_id")
              /\ pc' = "bc"
              /\ after' = "ret"
              /\ UNCHANGED wrote_processing
              /\ written' = WriteOf(jobs', current_job_id)
              /\ stamps' = Stamp(NoStamps, "failed", 0)
          ELSE
              /\ jobs' = update_progress(jobs, current_job_id, "processing", 0, NULL)
              /\ wrote_processing' = wrote_processing \cup {current_job_id}
              /\ written' = WriteOf(jobs', current_job_id)
              /\ stamps' = Stamp(NoStamps, "processing", 0)
              /\ pc' = "bc"
              /\ after' = "w10"
    /\ UNCHANGED <<crashes, ops, faults, delay, bcast, other_loops, reported, handler_from, stopVars, sent, last, active_connections, running, current_job_id, result, error_msg,
                   fail_retry_count, calls, requeues>>

\* _broadcast_update: the job is read and sent to every live connection
BroadcastUpdate ==
    /\ pc = "bc"
    /\ LET job == read_job(jobs, current_job_id)
       IN IF job # PyNone THEN
              /\ \E raising \in SUBSET {active_connections[i] : i \in 1..Len(active_connections)} :
                    active_connections' = broadcast(active_connections, raising).active
              /\ sent' = JobUpdate(job)
              /\ reported' = (reported \/ (written # NoWrite /\ written.status = "failed"))
          ELSE UNCHANGED <<active_connections, sent, reported>>
    /\ written' = NoWrite
    /\ pc' = after
    /\ UNCHANGED <<crashes, ops, faults, delay, bcast, other_loops, handler_from, stamps, stopVars, last, jobs, running, after, current_job_id, result, error_msg,
                   fail_retry_count, ghostVars>>

\* Faulty variant of StageProgress: stages 2 and 3 report 40 and then 30
StageProgress_out_of_order == [w10 |-> 10, w30 |-> 40, w40 |-> 30, w50 |-> 50]

\* The checkpoints written before the processor is invoked, and what follows each
StageProgress == [w10 |-> 10, w30 |-> 30, w40 |-> 40, w50 |-> 50]
StageNext == [w10 |-> "w30", w30 |-> "w40", w40 |-> "w50", w50 |-> "invoke"]

\* Stages 1 to 4: _update_progress(job_id, "processing", 10 / 30 / 40 / 50)
Stage ==
    /\ pc \in DOMAIN StageProgress
    /\ jobs' = update_progress(jobs, current_job_id, "processing", StageProgress[pc], NULL)
    /\ wrote_processing' = wrote_processing \cup {current_job_id}
    /\ written' = WriteOf(jobs', current_job_id)
    /\ stamps' = Stamp(stamps, "processing", StageProgress[pc])
    /\ pc' = "bc"
    /\ after' = StageNext[pc]
    /\ UNCHANGED <<crashes, ops, faults, delay, bcast, other_loops, reported, handler_from, stopVars, sent, last, active_connections, running, current_job_id, result, error_msg,
                   fail_retry_count, calls, requeues>>

\* asyncio.to_thread(self.extractor.process_video, video_url) is started
Invoke ==
    /\ pc = "invoke"
    /\ calls' = [calls EXCEPT ![current_job_id] = @ + 1]
    /\ pc' = "proc"
    /\ UNCHANGED <<crashes, ops, faults, delay, bcast, other_loops, reported, handler_from, stamps, stopVars, written, sent, last, jobs, active_connections, running, after, current_job_id, result,
                   error_msg, fail_retry_count, requeues, wrote_processing>>

\* process_video returns a result, or raises into the except clause
ProcessorReturns ==
    /\ pc = "proc"
    /\ \/ /\ \E r \in ProcessingResults : result' = r
          /\ pc' = "w60"
          /\ UNCHANGED <<error_msg, handler_from>>
       \/ /\ \E e \in ExceptionTexts : error_msg' = e
          /\ pc' = "fail"
          /\ handler_from' = "except"
          /\ UNCHANGED result
    /\ UNCHANGED <<crashes, ops, faults, delay, bcast, other_loops, reported, stamps, stopVars, written, sent, last, jobs, active_connections, running, after, current_job_id,
                   fail_retry_count, ghostVars>>

\* Faulty variant of SimulatedProgress: the checkpoints count down
SimulatedProgress_descending == [w60 |-> 90, w70 |-> 80, w80 |-> 70, w90 |-> 60]

\* The checkpoints written once the processor is back, and what follows each
SimulatedProgress == [w60 |-> 60, w70 |-> 70, w80 |-> 80, w90 |-> 90]
SimulatedNext == [w60 |-> "w70", w70 |-> "w80", w80 |-> "w90", w90 |-> "check"]

\* for progress in [60, 70, 80, 90]: if self.running: _update_progress(...)
Simulated ==
    /\ pc \in DOMAIN SimulatedProgress
    /\ IF running THEN
           /\ jobs' = update_progress(jobs, current_job_id, "processing",
                                      SimulatedProgress[pc], NULL)
           /\ wrote_processing' = wrote_processing \cup {current_job_id}
           /\ written' = WriteOf(jobs', current_job_id)
           /\ stamps' = Stamp(stamps, "processing", SimulatedProgress[pc])
           /\ pc' = "bc"
           /\ after' = SimulatedNext[pc]
       ELSE
           /\ pc' = SimulatedNext[pc]
           /\ UNCHANGED <<jobs, after, wrote_processing, written, stamps>>
    /\ UNCHANGED <<crashes, ops, faults, delay, bcast, other_loops, reported, handler_from, stopVars, sent, last, active_connections, running, current_job_id, result, error_msg,
                   fail_retry_count, calls, requeues>>

\* if result and result.status == "success"
Succeeded(r) == r # NoResult /\ r.status = "success"

\* The result is checked: on success the output paths are written; otherwise
\* the error text goes to the failure handler
Check ==
    /\ pc = "check"
    /\ IF Succeeded(result) THEN
           /\ jobs' = update_output_paths(jobs, current_job_id,
                          result.transcript_path,
                          IF ~Falsy(result.transcript_path)
                              THEN ReplaceMdJson(result.transcript_path) ELSE NULL,
                          IF ~Falsy(result.output_dir)
                              THEN MetadataFile(result.output_dir) ELSE NULL)
           /\ pc' = "complete"
           /\ UNCHANGED <<error_msg, handler_from>>
       ELSE
           /\ error_msg' = IF result # NoResult THEN result.error_message
                           ELSE "Unknown error"
           /\ pc' = "fail"
           /\ handler_from' = "else"
           /\ UNCHANGED jobs
    /\ UNCHANGED <<crashes, ops, faults, delay, bcast, other_loops, reported, stamps, stopVars, written, sent, last, active_connections, running, after, current_job_id, result,
                   fail_retry_count, ghostVars>>

\* _update_progress(job_id, "completed", 100)
Complete ==
    /\ pc = "complete"
    /\ jobs' = update_progress(jobs, current_job_id, "completed", 100, NULL)
    /\ written' = WriteOf(jobs', current_job_id)
    /\ stamps' = Stamp(stamps, "completed", 100)
    /\ pc' = "bc"
    /\ after' = "ret"
    /\ UNCHANGED <<crashes, ops, faults, delay, bcast, other_loops, reported, handler_from, stopVars, sent, last, active_connections, running, current_job_id, result, error_msg,
                   fail_retry_count, ghostVars>>

\* Faulty variant of WillRetry: a single retry (retry_count < 1)
WillRetry_once(retry_count) == retry_count < 1

\* Faulty variant of WillRetry: <= instead of <
WillRetry_inclusive(retry_count) == retry_count <= MAX_RETRIES

\* if retry_count < self.MAX_RETRIES
WillRetry(retry_count) == retry_count < MAX_RETRIES

RetryMessage(msg, retry_count) ==
    msg \o " (will retry, attempt " \o ToString(retry_count + 1) \o "/"
        \o ToString(MAX_RETRIES) \o ")"

MaxRetriesMessage(msg) ==
    "Max retries exceeded (" \o ToString(MAX_RETRIES) \o "): " \o msg

\* Faulty variant of RetryDelay: linear in retry_count (5, 10, 15)
RetryDelay_linear(retry_count) == INITIAL_RETRY_DELAY * (retry_count + 1)

\* delay = self.INITIAL_RETRY_DELAY * (2 ** retry_count)
RetryDelay(retry_count) == INITIAL_RETRY_DELAY * (2 ^ retry_count)

\* _handle_job_failure up to its broadcast: the job is read and written as failed
HandleJobFailure ==
    /\ pc = "fail"
    /\ LET job == read_job(jobs, current_job_id)
       IN IF job = PyNone THEN
              /\ pc' = "ret"
              /\ UNCHANGED <<jobs, after, fail_retry_count, written, stamps, delay>>
          ELSE IF WillRetry(job.retry_count) THEN
              /\ jobs' = update_job_status(jobs, current_job_id, "failed", 0,
                                           RetryMessage(error_msg, job.retry_count))
              /\ fail_retry_count' = job.retry_count
              /\ written' = WriteOf(jobs', current_job_id)
              /\ stamps' = Stamp(stamps, "failed", 0)
              /\ delay' = RetryDelay(job.retry_count)
              /\ pc' = "bc"
              /\ after' = "backoff"
          ELSE
              /\ jobs' = update_job_status(jobs, current_job_id, "failed", 0,
                                           MaxRetriesMessage(error_msg))
              /\ fail_retry_count' = job.retry_count
              /\ written' = WriteOf(jobs', current_job_id)
              /\ stamps' = Stamp(stamps, "failed", 0)
              /\ pc' = "bc"
              /\ after' = "ret"
              /\ UNCHANGED delay
    /\ UNCHANGED <<crashes, ops, faults, bcast, other_loops, reported, handler_from, stopVars, sent, last, active_connections, running, current_job_id, result, error_msg,
                   ghostVars>>

\* Faulty variant of Requeue: the handler does not wait for the sleep and the
\* re-queue, it returns to the loop and leaves them to a task of their own
Requeue_detached ==
    /\ pc = "backoff"
    /\ pc' = "ret"
    /\ UNCHANGED <<crashes, ops, faults, delay, bcast, other_loops, reported, handler_from, stamps, stopVars,
                   written, sent, last, jobs, active_connections, running, after,
                   current_job_id, result, error_msg, fail_retry_count, ghostVars>>

\* asyncio.sleep(delay) is over: the job is written back to pending at 0
Requeue ==
    /\ pc = "backoff"
    /\ jobs' = update_job_status(jobs, current_job_id, "pending", 0, NULL)
    /\ requeues' = [requeues EXCEPT ![current_job_id] = @ + 1]
    /\ written' = WriteOf(jobs', current_job_id)
    /\ stamps' = Stamp(stamps, "pending", 0)
    /\ pc' = "bc"
    /\ after' = "ret"
    /\ UNCHANGED <<crashes, ops, faults, delay, bcast, other_loops, reported, handler_from, stopVars, sent, last, active_connections, running, current_job_id, result, error_msg,
                   fail_retry_count, calls, wrote_processing>>

\* finally: self.current_job_id = None; _process_job's locals are gone and
\* the loop is back at its test
Return ==
    /\ pc = "ret"
    /\ current_job_id' = NULL
    /\ result' = Unset
    /\ error_msg' = NULL
    /\ fail_retry_count' = 0
    /\ sent' = NoEvent
    /\ handler_from' = "none"
    /\ stamps' = NoStamps
    /\ reported' = FALSE
    /\ delay' = 0
    /\ pc' = "poll"
    /\ UNCHANGED <<crashes, ops, faults, bcast, other_loops, stopVars, written, last, jobs, active_connections, running, after, ghostVars>>

WorkerNext ==
    \/ Wake \/ Poll \/ Begin \/ BroadcastUpdate \/ Stage \/ Invoke \/ ProcessorReturns
    \/ Simulated \/ Check \/ Complete \/ HandleJobFailure \/ Requeue \/ Return

Next == CreateJob \/ RecoverOrphaned \/ Crash \/ Start \/ Stop \/ WorkerNext

Spec == Init /\ [][Next]_vars

\* ------------------------------------------------------------ the host
\* The process as main.py runs it: jobs come in through the request layer,
\* startup_event starts the worker, shutdown_event stops it, and the
\* process can be killed at any point.

\* POST /jobs/add-selected, for up to MaxSubmitted jobs
Submit ==
    /\ AtAwait
    /\ Len(jobs) < MaxSubmitted
    /\ jobs' = create_job(jobs, FreshId(jobs), "abc", NULL, NULL, NULL, PyNone)
    /\ UNCHANGED <<crashes, ops, faults, delay, bcast, other_loops, reported, handler_from, stamps, stopVars, written, sent, active_connections, workerVars,
                   ghostVars, last>>

\* startup_event: the directories are made and, inside the try, the worker
\* is built and started; when the try raises before worker.start() the
\* error is logged and no worker runs. No recovery sweep is called.
Startup ==
    /\ pc = "stopped"
    /\ \E started \in BOOLEAN :
         IF started THEN /\ running' = TRUE
                         /\ pc' = "ready"
         ELSE UNCHANGED <<running, pc>>
    /\ UNCHANGED <<crashes, ops, faults, delay, bcast, other_loops, reported, handler_from, stamps, stopVars, written, sent, last, jobs, active_connections, after,
                   current_job_id, result, error_msg, fail_retry_count, ghostVars>>

HostNext == Submit \/ Startup \/ Stop \/ Crash \/ WorkerNext

HostSpec == Init /\ [][HostNext]_vars

\* The poll loop left to run: jobs are submitted, the worker is started
\* once and neither stopped nor killed. The task is scheduled whenever it
\* can run: every sleep ends and every processor call returns.
RunNext == Submit \/ Start \/ WorkerNext

RunSpec == Init /\ [][RunNext]_vars /\ WF_vars(Start) /\ WF_vars(WorkerNext)

\* ------------------------------------------------- faults of the store
\* The poll loop with a JobStore that can raise (sqlite3.OperationalError)
\* and a client whose send_json can raise: where each exception is caught.

\* str(e) of an exception a JobStore call lets out
StoreFaultText == "database is locked"

\* Faulty variant of AfterLoopError: the loop lets the exception out and ends
AfterLoopError_reraise == "stopped"

\* _process_loop, except Exception: the error is logged and
\* asyncio.sleep(5) is awaited before the next test of the flag
AfterLoopError == "idle"

\* The worker's next step calls the JobStore inside the try of _process_job
\* and outside _handle_job_failure
InTryBody ==
    /\ handler_from = "none"
    /\ \/ pc \in {"begin", "complete", "bc"}
       \/ pc \in DOMAIN StageProgress
       \/ pc \in DOMAIN SimulatedProgress /\ running
       \/ pc = "check" /\ Succeeded(result)

\* The worker's next step calls the JobStore inside _handle_job_failure
InHandler == handler_from # "none" /\ pc \in {"fail", "backoff", "bc"}

\* The JobStore call of the worker's next step raises and leaves the table
\* as it is. In list_pending_jobs the loop's except catches it. In the try
\* of _process_job, which holds the handler call of the else branch, the
\* except clause catches it and calls _handle_job_failure(job_id, str(e)).
\* In the handler called from the except clause nothing catches it before
\* the loop: finally clears current_job_id and the loop's except sleeps.
StoreFault ==
    /\ faults < MaxFaults
    /\ faults' = faults + 1
    /\ IF pc = "poll" /\ KeepRunning(running) THEN
           /\ pc' = AfterLoopError
           /\ UNCHANGED <<current_job_id, result, error_msg, fail_retry_count,
                          handler_from, stamps, reported, written, sent, after, delay>>
       ELSE IF InTryBody \/ (InHandler /\ handler_from = "else") THEN
           /\ error_msg' = StoreFaultText
           /\ handler_from' = "except"
           /\ written' = NoWrite
           /\ delay' = 0
           /\ pc' = "fail"
           /\ UNCHANGED <<current_job_id, result, fail_retry_count, stamps,
                          reported, sent, after>>
       ELSE
           /\ InHandler /\ handler_from = "except"
           /\ current_job_id' = NULL
           /\ result' = Unset
           /\ error_msg' = NULL
           /\ fail_retry_count' = 0
           /\ sent' = NoEvent
           /\ handler_from' = "none"
           /\ stamps' = NoStamps
           /\ reported' = FALSE
           /\ written' = NoWrite
           /\ after' = "ret"
           /\ delay' = 0
           /\ pc' = AfterLoopError
    /\ UNCHANGED <<jobs, active_connections, running, crashes, ops, stopVars,
                   ghostVars, last, bcast, other_loops>>

\* GET /ws: one client connects (ws_manager.connect) while none is connected
ClientConnects ==
    /\ AtAwait
    /\ active_connections = <<>>
    /\ active_connections' = <<"ws1">>
    /\ UNCHANGED <<crashes, ops, faults, delay, bcast, other_loops, reported, handler_from, stamps, stopVars, written, sent,
                   jobs, workerVars, ghostVars, last>>

FaultNext == CreateJob \/ Start \/ ClientConnects \/ StoreFault \/ WorkerNext

FaultSpec == Init /\ [][FaultNext]_vars /\ WF_vars(Start) /\ WF_vars(WorkerNext)

\* A startup that keeps the startup contract: recover_orphaned_jobs(MAX_RETRIES)
\* first, worker.start() after it
Restart ==
    /\ pc = "stopped"
    /\ jobs' = recover_orphaned_jobs(jobs, MAX_RETRIES).tbl
    /\ running' = TRUE
    /\ pc' = "ready"
    /\ UNCHANGED <<crashes, ops, faults, delay, bcast, other_loops, reported, handler_from, stamps, stopVars, written, sent, last, active_connections, after,
                   current_job_id, result, error_msg, fail_retry_count, ghostVars>>

\* The process is killed at most MaxCrashes times and restarted each time
RecoverNext == Submit \/ Restart \/ Crash \/ WorkerNext

RecoverSpec == Init /\ [][RecoverNext]_vars /\ WF_vars(Restart) /\ WF_vars(WorkerNext)

\* ------------------------------------------------------ callers of stop()
\* Faulty variant of TaskDone: stop() does not await the task
TaskDone_no_await(p) == TRUE

\* await self.task is over once the poll loop task has ended; with no task
\* (self.task is None) stop() does not await at all
TaskDone(p) == p = "stopped"

\* What stop() finds: a loop task that runs, no task yet, or a task that ended
StopKind == IF pc # "stopped" THEN "running"
            ELSE IF stop_state = "idle" THEN "unstarted"
            ELSE "ended"

\* stop() up to its await: running = False. Awaiting a task that is done, or
\* having no task to await, does not suspend: stop() returns in the same step
StopCall ==
    /\ AtAwait
    /\ stop_state # "waiting"
    /\ running' = FALSE
    /\ stop_state' = IF TaskDone(pc) THEN "returned" ELSE "waiting"
    /\ stop_job' = current_job_id
    /\ stop_kind' = StopKind
    /\ stop_seen' = stop_seen \cup {StopKind}
    /\ UNCHANGED <<crashes, ops, faults, delay, bcast, other_loops, reported, handler_from, stamps, written, sent, last, jobs, active_connections, pc, after,
                   current_job_id, result, error_msg, fail_retry_count, ghostVars>>

\* stop() returns from its await
StopReturns ==
    /\ stop_state = "waiting"
    /\ TaskDone(pc)
    /\ stop_state' = "returned"
    /\ UNCHANGED <<crashes, ops, faults, delay, bcast, other_loops, reported, handler_from, stamps, written, sent, last, jobs, active_connections, workerVars,
                   ghostVars, stop_job, stop_kind, stop_seen>>

\* start() as the host calls it: from the startup handler, never while the
\* shutdown handler is inside stop()
StartCall == stop_state # "waiting" /\ Start

\* The worker with callers of start() and stop(), never killed
StopNext == Submit \/ StartCall \/ StopCall \/ StopReturns \/ WorkerNext

StopSpec == Init /\ [][StopNext]_vars /\ WF_vars(StopReturns) /\ WF_vars(WorkerNext)

\* ------------------------------------------------- callers of the JobStore
\* Any caller of JobDatabase (the request layer, a test, the host): each
\* call is one action, and last holds the call and what it returned.

\* The argument lists callers pass to create_job
CreateArgs ==
    { [video_id |-> "abc", video_title |-> NULL, playlist_id |-> NULL,
       channel_id |-> NULL, metadata |-> PyNone],
      [video_id |-> "abc", video_title |-> "Test Video", playlist_id |-> "PLxxxxxx",
       channel_id |-> "UCyyyyyy", metadata |-> Dict(<< <<"source", "api">> >>)],
      [video_id |-> "abc", video_title |-> "", playlist_id |-> NULL,
       channel_id |-> NULL, metadata |-> Dict(<<>>)] }

\* The ids a caller names: those in the table
CallerIds(tbl) == {tbl[i].id : i \in 1..Len(tbl)}

StoreVarsUnchanged ==
    UNCHANGED <<active_connections, workerVars, ghostVars, crashes, stopVars, written, sent,
                handler_from, faults, delay, bcast, other_loops, reported, stamps>>

\* create_job(job_id, ...) under a new id or under one that is taken
StoreCreate ==
    /\ ops < MaxStoreOps
    /\ \E args \in CreateArgs,
          job_id \in {tbl_id \in {jobs[i].id : i \in 1..Len(jobs)} \cup {FreshId(jobs)} :
                         HasRow(jobs, tbl_id) \/ Len(jobs) < MaxStoreJobs} :
         LET tbl == create_job(jobs, job_id, args.video_id, args.video_title,
                               args.playlist_id, args.channel_id, args.metadata)
         IN /\ jobs' = tbl
            /\ last' = [op |-> "create_job", job_id |-> job_id, args |-> args,
                        raised |-> HasRow(jobs, job_id),
                        ret |-> read_job(tbl, job_id)]
    /\ ops' = ops + 1
    /\ StoreVarsUnchanged

\* The (status, progress, error_message) callers pass to update_job_status
StatusArgs ==
    { <<"pending", 0, NULL>>, <<"processing", 0, NULL>>, <<"processing", 100, NULL>>,
      <<"completed", 0, NULL>>, <<"failed", 0, "api error">> }

\* update_job_status(job_id, status, progress, error_message)
StoreUpdateStatus ==
    /\ ops < MaxStoreOps
    /\ \E job_id \in CallerIds(jobs), a \in StatusArgs :
         LET tbl == update_job_status(jobs, job_id, a[1], a[2], a[3])
         IN /\ jobs' = tbl
            /\ last' = [op |-> "update_job_status", job_id |-> job_id, args |-> a]
    /\ ops' = ops + 1
    /\ StoreVarsUnchanged

\* recover_orphaned_jobs(max_retries)
StoreRecover ==
    /\ ops < MaxStoreOps
    /\ \E max_retries \in {1, MAX_RETRIES} :
         LET r == recover_orphaned_jobs(jobs, max_retries)
         IN /\ jobs' = r.tbl
            /\ last' = [op |-> "recover_orphaned_jobs", job_id |-> NULL,
                        args |-> <<max_retries>>, ret |-> r.recovered_jobs,
                        nth |-> IF last.op = "recover_orphaned_jobs" THEN 2 ELSE 1,
                        prev_ret |-> IF last.op = "recover_orphaned_jobs"
                                     THEN last.ret ELSE <<>>]
    /\ ops' = ops + 1
    /\ StoreVarsUnchanged

\* update_output_paths(job_id, transcript_md, transcript_json, metadata_file)
StoreUpdateOutputPaths ==
    /\ ops < MaxStoreOps
    /\ \E job_id \in CallerIds(jobs), transcript_md \in {"/out/abc.md"} :
         LET tbl == update_output_paths(jobs, job_id, transcript_md,
                                        ReplaceMdJson(transcript_md), NULL)
         IN /\ jobs' = tbl
            /\ last' = [op |-> "update_output_paths", job_id |-> job_id,
                        args |-> <<transcript_md>>]
    /\ ops' = ops + 1
    /\ StoreVarsUnchanged

StoreNext == StoreCreate \/ StoreUpdateStatus \/ StoreUpdateOutputPaths \/ StoreRecover

StoreSpec == Init /\ [][StoreNext]_vars

\* ----------------------------------------------- callers of the request layer
\* The JobStore as the request layer and other callers use it, one call at a
\* time, also with ids that have no row and with ids that are taken.

\* An id no row has
NoSuchId == "j0"

\* The ids a caller may name: those in the table and one that is not
NamedIds(tbl) == CallerIds(tbl) \cup {NoSuchId}

\* INSERT INTO jobs raises sqlite3.IntegrityError when the id, the PRIMARY
\* KEY, is taken
IntegrityError(tbl, job_id) == HasRow(tbl, job_id)

\* create_job(job_id, "abc", ...) under a new id or under one that is taken
CallCreate ==
    /\ ops < MaxCallOps
    /\ \E job_id \in {id \in CallerIds(jobs) \cup {FreshId(jobs)} :
                         HasRow(jobs, id) \/ Len(jobs) < MaxJobs} :
         LET tbl == create_job(jobs, job_id, "abc", "Test Video", NULL, NULL, PyNone)
         IN /\ jobs' = tbl
            /\ last' = [op |-> "create_job", job_id |-> job_id, args |-> <<"abc">>,
                        raised |-> IntegrityError(jobs, job_id),
                        ret |-> IF IntegrityError(jobs, job_id) THEN PyNone
                                ELSE read_job(tbl, job_id)]
    /\ ops' = ops + 1
    /\ StoreVarsUnchanged

\* read_job(job_id)
CallRead ==
    /\ ops < MaxCallOps
    /\ \E job_id \in NamedIds(jobs) :
         last' = [op |-> "read_job", job_id |-> job_id, args |-> <<>>,
                  raised |-> FALSE, ret |-> read_job(jobs, job_id)]
    /\ ops' = ops + 1
    /\ UNCHANGED jobs
    /\ StoreVarsUnchanged

\* The (status, progress, error_message) the update boundary lets through:
\* any status, a progress in [0, 100], any text or none
CallStatusArgs ==
    { <<"pending", 0, NULL>>, <<"pending", 50, "api error">>,
      <<"processing", 0, NULL>>, <<"processing", 50, NULL>>, <<"processing", 100, NULL>>,
      <<"completed", 0, NULL>>, <<"completed", 50, NULL>>,
      <<"failed", 0, NULL>>, <<"failed", 100, "api error">> }

\* PATCH /jobs/{job_id}: update_job_status(job_id, status, progress, error_message)
CallUpdateStatus ==
    /\ ops < MaxCallOps
    /\ \E job_id \in NamedIds(jobs), a \in CallStatusArgs :
         LET tbl == update_job_status(jobs, job_id, a[1], a[2], a[3])
         IN /\ jobs' = tbl
            /\ last' = [op |-> "update_job_status", job_id |-> job_id, args |-> a,
                        raised |-> FALSE, ret |-> read_job(tbl, job_id)]
    /\ ops' = ops + 1
    /\ StoreVarsUnchanged

\* update_output_paths(job_id, transcript_md, transcript_json, metadata_file)
CallUpdateOutputPaths ==
    /\ ops < MaxCallOps
    /\ \E job_id \in NamedIds(jobs) :
         LET tbl == update_output_paths(jobs, job_id, "/out/abc.md", "/out/abc.json", NULL)
         IN /\ jobs' = tbl
            /\ last' = [op |-> "update_output_paths", job_id |-> job_id,
                        args |-> <<"/out/abc.md", "/out/abc.json", NULL>>,
                        raised |-> FALSE, ret |-> read_job(tbl, job_id)]
    /\ ops' = ops + 1
    /\ StoreVarsUnchanged

\* recover_orphaned_jobs()
CallRecover ==
    /\ ops < MaxCallOps
    /\ LET r == recover_orphaned_jobs(jobs, MAX_RETRIES)
       IN /\ jobs' = r.tbl
          /\ last' = [op |-> "recover_orphaned_jobs", job_id |-> NULL,
                      args |-> <<MAX_RETRIES>>, raised |-> FALSE,
                      ret |-> r.recovered_jobs]
    /\ ops' = ops + 1
    /\ StoreVarsUnchanged

CallNext ==
    CallCreate \/ CallRead \/ CallUpdateStatus \/ CallUpdateOutputPaths \/ CallRecover

CallSpec == Init /\ [][CallNext]_vars

\* ------------------------------------------ callers of update_output_paths
\* The values callers pass for each path; None is also what an omitted
\* keyword argument defaults to
MdArgs == TranscriptPaths \cup {NULL}
JsonArgs == {ReplaceMdJson(p) : p \in TranscriptPaths} \cup {NULL}
MetadataArgs == {MetadataFile(dir) : dir \in OutputDirs} \cup {NULL}

\* create_job(job_id, "abc") under a new id
PathsCreate ==
    /\ Len(jobs) < MaxJobs
    /\ jobs' = create_job(jobs, FreshId(jobs), "abc", NULL, NULL, NULL, PyNone)
    /\ last' = [op |-> "create_job", job_id |-> FreshId(jobs)]
    /\ UNCHANGED ops
    /\ StoreVarsUnchanged

\* update_output_paths(job_id, transcript_md, transcript_json, metadata_file);
\* before is the output_paths column as it was stored ahead of the call
PathsUpdate ==
    /\ \E job_id \in CallerIds(jobs), transcript_md \in MdArgs,
          transcript_json \in JsonArgs, metadata_file \in MetadataArgs :
         LET tbl == update_output_paths(jobs, job_id, transcript_md,
                                        transcript_json, metadata_file)
         IN /\ jobs' = tbl
            /\ last' = [op |-> "update_output_paths", job_id |-> job_id,
                        args |-> <<transcript_md, transcript_json, metadata_file>>,
                        before |-> RowOf(jobs, job_id).output_paths]
    /\ UNCHANGED ops
    /\ StoreVarsUnchanged

PathsNext == PathsCreate \/ PathsUpdate

PathsSpec == Init /\ [][PathsNext]_vars

\* ------------------------------------------- callers of the ConnectionManager
\* The events callers broadcast
Messages == { [type |-> "job_update", job |-> j] : j \in {"j1", "j2"} }

HubVarsUnchanged ==
    UNCHANGED <<jobs, workerVars, ghostVars, crashes, ops, stopVars, written, sent,
                handler_from, faults, delay, bcast, other_loops, reported, stamps>>

\* connect(websocket): accept() returns, or raises and nothing is appended
HubConnect ==
    /\ Len(active_connections) < MaxLive
    /\ \E websocket \in Conns, accepts \in BOOLEAN :
         /\ active_connections' = connect(active_connections, websocket, accepts)
         /\ last' = [op |-> "connect", args |-> <<websocket, accepts>>,
                     before |-> active_connections, ret |-> NULL]
    /\ HubVarsUnchanged

\* disconnect(websocket)
HubDisconnect ==
    /\ \E websocket \in Conns :
         /\ active_connections' = disconnect(active_connections, websocket)
         /\ last' = [op |-> "disconnect", args |-> <<websocket>>,
                     before |-> active_connections, ret |-> NULL]
    /\ HubVarsUnchanged

\* broadcast(message), send_json raising on the connections in raising
HubBroadcast ==
    /\ \E message \in Messages, raising \in SUBSET Conns :
         LET b == broadcast(active_connections, raising)
         IN /\ active_connections' = b.active
            /\ last' = [op |-> "broadcast", args |-> <<message, raising>>,
                        before |-> active_connections, ret |-> b]
    /\ HubVarsUnchanged

HubNext == HubConnect \/ HubDisconnect \/ HubBroadcast

HubSpec == Init /\ [][HubNext]_vars

\* ------------------------------------------- a broadcast, send by send
\* broadcast() is a coroutine: 'for connection in self.active_connections'
\* walks the live list itself, by index, and is suspended in every
\* 'await connection.send_json(message)'. There connect() and disconnect()
\* of the websocket endpoint run and change the list under the iterator.
\* bcast holds the frame of the suspended call: i is the index the iterator
\* has handed out, connection the one being sent to, disconnected the local
\* list; attempted and stable (the connections live since the call began)
\* are kept for the properties.

IterVarsUnchanged ==
    UNCHANGED <<jobs, workerVars, ghostVars, crashes, ops, stopVars, written, sent,
                handler_from, faults, delay, other_loops, reported, stamps>>

\* The connections of a list
Members(list) == {list[k] : k \in 1..Len(list)}

\* connect(websocket) of a websocket that is not live; accept() may raise
IterConnect ==
    /\ Len(active_connections) < MaxLive
    /\ \E websocket \in Conns \ Members(active_connections), accepts \in BOOLEAN :
         active_connections' = connect(active_connections, websocket, accepts)
    /\ UNCHANGED <<bcast, last>>
    /\ IterVarsUnchanged

\* disconnect(websocket) of a live websocket (the endpoint's client is gone)
IterDisconnect ==
    /\ \E websocket \in Members(active_connections) :
         /\ active_connections' = disconnect(active_connections, websocket)
         /\ bcast' = IF bcast = NoBroadcast THEN bcast
                     ELSE [bcast EXCEPT !.stable = @ \ {websocket}]
    /\ UNCHANGED last
    /\ IterVarsUnchanged

\* Faulty variant of NextIndex: the iterator never hands out an index
NextIndex_stops(i, list) == 0

\* The list iterator's next(): the index after i if the list still has one
\* there, 0 for StopIteration
NextIndex(i, list) == IF i + 1 <= Len(list) THEN i + 1 ELSE 0

\* broadcast(message) is called: the first send_json is awaited, or the
\* list is empty and the call returns at once
BroadcastBegins ==
    /\ bcast = NoBroadcast
    /\ LET i == NextIndex(0, active_connections)
       IN IF i = 0 THEN
              /\ last' = [op |-> "broadcast", attempted |-> <<>>, stable |-> {},
                          failed |-> <<>>]
              /\ UNCHANGED bcast
          ELSE
              /\ bcast' = [state |-> "sending", i |-> i,
                           connection |-> active_connections[i],
                           disconnected |-> <<>>,
                           attempted |-> <<active_connections[i]>>,
                           stable |-> Members(active_connections)]
              /\ last' = NoCall
    /\ UNCHANGED active_connections
    /\ IterVarsUnchanged

\* The awaited send_json returns or raises; the loop goes on to the next
\* index of the list as it is now, or ends, and then the connections in
\* disconnected are removed and broadcast returns
SendReturns ==
    /\ bcast # NoBroadcast
    /\ \E raises \in BOOLEAN :
         LET disconnected == IF raises THEN Append(bcast.disconnected, bcast.connection)
                             ELSE bcast.disconnected
             i == NextIndex(bcast.i, active_connections)
         IN IF i # 0 THEN
                /\ bcast' = [bcast EXCEPT !.i = i,
                                          !.connection = active_connections[i],
                                          !.disconnected = disconnected,
                                          !.attempted = Append(@, active_connections[i])]
                /\ UNCHANGED <<active_connections, last>>
            ELSE
                /\ active_connections' = DisconnectAll(active_connections, disconnected)
                /\ last' = [op |-> "broadcast", attempted |-> bcast.attempted,
                            stable |-> bcast.stable, failed |-> disconnected]
                /\ bcast' = NoBroadcast
    /\ IterVarsUnchanged

IterNext == IterConnect \/ IterDisconnect \/ BroadcastBegins \/ SendReturns

IterSpec == Init /\ [][IterNext]_vars

\* ------------------------------------------------- start() called again
\* start() and stop() called in any order on one worker. start() tests
\* nothing: it sets running and creates a poll loop task each time, and
\* self.task names the newest one only. pc follows the oldest live task;
\* other_loops counts the live ones created after it.

\* start() while a poll loop task is alive
StartAgain ==
    /\ pc # "stopped"
    /\ AtAwait
    /\ other_loops + 1 < MaxLoops
    /\ running' = TRUE
    /\ other_loops' = other_loops + 1
    /\ UNCHANGED <<crashes, ops, faults, delay, bcast, reported, handler_from, stamps, stopVars, written, sent,
                   last, jobs, active_connections, pc, after, current_job_id, result, error_msg,
                   fail_retry_count, ghostVars>>

\* Another poll loop task finds running false at its while test and ends
OtherLoopEnds ==
    /\ other_loops > 0
    /\ ~KeepRunning(running)
    /\ other_loops' = other_loops - 1
    /\ UNCHANGED <<crashes, ops, faults, delay, bcast, reported, handler_from, stamps, stopVars, written, sent,
                   last, jobs, active_connections, workerVars, ghostVars>>

\* The poll loop tasks that are alive
LiveLoops == (IF pc = "stopped" THEN 0 ELSE 1) + other_loops

TasksNext == CreateJob \/ Start \/ StartAgain \/ Stop \/ OtherLoopEnds \/ WorkerNext

TasksSpec == Init /\ [][TasksNext]_vars

\* ------------------------------------------------ process() called directly
\* _process_job(job_id) awaited by a caller of its own, as the tests of the
\* worker do, while no poll loop task runs: the id names a pending job or
\* no row at all.

\* The ids such a caller passes
ProcessIds(tbl) ==
    {tbl[i].id : i \in {k \in 1..Len(tbl) : tbl[k].status = "pending"}} \cup {NoSuchId}

\* await worker._process_job(job_id)
ProcessCall ==
    /\ pc = "stopped"
    /\ \E job_id \in ProcessIds(jobs) : current_job_id' = job_id
    /\ pc' = "begin"
    /\ UNCHANGED <<crashes, ops, faults, delay, bcast, other_loops, reported, handler_from, stamps, stopVars, written, sent,
                   last, jobs, active_connections, running, after, result, error_msg,
                   fail_retry_count, ghostVars>>

ProcessNext == CreateJob \/ ProcessCall \/ Start \/ Stop \/ WorkerNext

ProcessSpec == Init /\ [][ProcessNext]_vars

\* ---------------------------------------------------------------------
\* Properties
\* ---------------------------------------------------------------------

Rows == 1..Len(jobs)

\* The value stored under key in a parsed JSON object
DictGet(d, key) ==
    d.items[CHOOSE i \in 1..Len(d.items) : d.items[i][1] = key][2]

\* C1 (Spec): in every state the worker and the recovery sweep can reach, a
\* job has status 'completed' exactly when its progress is 100.
C1_CompletedIffProgress100 ==
    \A i \in Rows : (jobs[i].status = "completed") <=> (jobs[i].progress = 100)

\* A job that failed once, was retried and is now completed at 100
C1_Witness ==
    /\ pc = "ret"
    /\ \E i \in Rows :
         /\ jobs[i].id = current_job_id
         /\ jobs[i].status = "completed"
         /\ jobs[i].progress = 100
         /\ jobs[i].retry_count > 0

\* C2 (StoreSpec): no JobStore operation removes or reorders a row, and none
\* lowers a row's retry_count: in every step each row keeps its id and its
\* retry_count stays the same or grows.
C2_RetryCountNeverDecreases ==
    [][\A i \in Rows :
          /\ i <= Len(jobs')
          /\ jobs'[i].id = jobs[i].id
          /\ jobs'[i].retry_count >= jobs[i].retry_count]_vars

\* A job that failed twice has just been re-queued by the sweep and still
\* carries its two failures
C2_Witness ==
    /\ last.op = "recover_orphaned_jobs"
    /\ \E i \in Rows :
         /\ jobs[i].retry_count >= 2
         /\ jobs[i].status = "pending"
         /\ \E k \in 1..Len(last.ret) : last.ret[k] = jobs[i].id

\* After recover_orphaned_jobs returns no row is in 'processing'
C3_NoProcessingAfterSweep ==
    last.op = "recover_orphaned_jobs" =>
        \A i \in Rows : jobs[i].status # "processing"

\* C3 (StoreSpec): recover_orphaned_jobs leaves no job in 'processing', and
\* a second sweep run directly after a first returns the empty list and
\* changes no row.
C3_RecoverIdempotent ==
    /\ []C3_NoProcessingAfterSweep
    /\ [][(last.op = "recover_orphaned_jobs" /\ last'.op = "recover_orphaned_jobs")
            => (last'.ret = <<>> /\ jobs' = jobs)]_vars

\* A second sweep directly after a first that had recovered something
C3_Witness ==
    /\ last.op = "recover_orphaned_jobs"
    /\ last.nth = 2
    /\ last.prev_ret # <<>>
    /\ last.ret = <<>>
    /\ \E i \in Rows : jobs[i].status = "pending"

\* C4 (StoreSpec): after create_job with a fresh id, read_job returns a job
\* with status 'pending', progress 0, retry_count 0 and video_title,
\* playlist_id, channel_id and metadata equal to the values passed in.
C4_CreateReadRoundTrip ==
    (last.op = "create_job" /\ ~last.raised) =>
        /\ last.ret # PyNone
        /\ last.ret.id = last.job_id
        /\ last.ret.status = "pending"
        /\ last.ret.progress = 0
        /\ last.ret.retry_count = 0
        /\ last.ret.video_id = last.args.video_id
        /\ last.ret.video_title = last.args.video_title
        /\ last.ret.playlist_id = last.args.playlist_id
        /\ last.ret.channel_id = last.args.channel_id
        /\ last.ret.metadata = last.args.metadata

\* The row of the job the worker is processing
CurrentRow(tbl) == RowOf(tbl, current_job_id)

\* C5 (Spec): the retry boundary is at MAX_RETRIES. A failure met with
\* retry_count = MAX_RETRIES - 1 is written 'failed' and then re-queued as
\* 'pending' with retry_count = MAX_RETRIES; a failure met with
\* retry_count = MAX_RETRIES is written 'failed' and goes straight to the
\* return with no re-queue; a job whose retry_count is above MAX_RETRIES is
\* 'failed' in every state.
C5_RetryBoundary ==
    /\ [][(pc = "fail" /\ pc' = "bc"
            /\ CurrentRow(jobs).retry_count = MAX_RETRIES - 1)
          => /\ after' = "backoff"
             /\ CurrentRow(jobs').status = "failed"
             /\ CurrentRow(jobs').retry_count = MAX_RETRIES]_vars
    /\ [][(pc = "backoff" /\ pc' = "bc" /\ fail_retry_count = MAX_RETRIES - 1)
          => /\ CurrentRow(jobs').status = "pending"
             /\ CurrentRow(jobs').progress = 0
             /\ CurrentRow(jobs').retry_count = MAX_RETRIES]_vars
    /\ [][(pc = "fail" /\ pc' = "bc"
            /\ CurrentRow(jobs).retry_count = MAX_RETRIES)
          => /\ after' = "ret"
             /\ CurrentRow(jobs').status = "failed"]_vars
    /\ [](\A i \in Rows :
            jobs[i].retry_count > MAX_RETRIES => jobs[i].status = "failed")

\* A job re-queued MAX_RETRIES times has failed once more and stays failed
C5_Witness ==
    /\ pc = "ret"
    /\ \E i \in Rows :
         /\ jobs[i].id = current_job_id
         /\ jobs[i].status = "failed"
         /\ jobs[i].retry_count = MAX_RETRIES + 1
         /\ requeues[jobs[i].id] = MAX_RETRIES

\* C6 as the specification words it: a failure met with retry_count =
\* MAX_RETRIES writes 'failed' with the max-retries message and leaves
\* retry_count as it was.
C6_PermanentFailureKeepsRetryCount ==
    [][(pc = "fail" /\ pc' = "bc" /\ CurrentRow(jobs).retry_count = MAX_RETRIES)
       => /\ CurrentRow(jobs').status = "failed"
          /\ CurrentRow(jobs').error_message
                = "Max retries exceeded (3): " \o error_msg
          /\ CurrentRow(jobs').retry_count = CurrentRow(jobs).retry_count]_vars

\* C6 (Spec): a failure met with retry_count = MAX_RETRIES writes 'failed'
\* with the message "Max retries exceeded (3): <error>", and that write
\* raises retry_count by one, to MAX_RETRIES + 1.
C6_PermanentFailureCountsOnce ==
    [][(pc = "fail" /\ pc' = "bc" /\ CurrentRow(jobs).retry_count = MAX_RETRIES)
       => /\ CurrentRow(jobs').status = "failed"
          /\ CurrentRow(jobs').error_message
                = "Max retries exceeded (3): " \o error_msg
          /\ CurrentRow(jobs').retry_count = MAX_RETRIES + 1]_vars

\* The permanent failure has just been written
C6_Witness ==
    /\ pc = "bc"
    /\ after = "ret"
    /\ fail_retry_count = MAX_RETRIES
    /\ CurrentRow(jobs).status = "failed"
    /\ CurrentRow(jobs).retry_count = MAX_RETRIES + 1
    /\ CurrentRow(jobs).error_message
          = "Max retries exceeded (3): WhisperX transcription failed"

\* C7 (HubSpec): broadcast attempts every connection that was live, in
\* order; every connection whose send does not raise receives the message;
\* exactly the raising connections are removed from the live list; and no
\* exception leaves broadcast.
C7_BroadcastResilience ==
    last.op = "broadcast" =>
        LET before == last.before
            raising == last.args[2]
            healthy == SelectSeq(before, LAMBDA c : c \notin raising)
        IN /\ last.ret.attempted = before
           /\ last.ret.delivered = healthy
           /\ active_connections = healthy
           /\ ~last.ret.raised

\* Three live connections, the middle one raising, the other two served
C7_Witness ==
    /\ last.op = "broadcast"
    /\ Len(last.before) = 3
    /\ Cardinality({last.before[i] : i \in 1..3}) = 3
    /\ last.before[2] \in last.args[2]
    /\ last.before[1] \notin last.args[2]
    /\ last.before[3] \notin last.args[2]
    /\ last.ret.delivered = <<last.before[1], last.before[3]>>
    /\ active_connections = <<last.before[1], last.before[3]>>

\* C8 (Spec): when process() returns after the Processor reported success
\* the job is 'completed' with progress 100 and its stored output_paths hold
\* the transcript path the Processor reported; the only step that makes a job
\* 'completed' is the worker's write at 100, and at that step the output
\* paths are already in the row.
C8_HappyPath ==
    /\ []((pc = "ret" /\ Succeeded(result)) =>
            LET job == read_job(jobs, current_job_id)
            IN /\ job # PyNone
               /\ job.status = "completed"
               /\ job.progress = 100
               /\ job.output_paths # PyNone
               /\ DictGet(job.output_paths, "transcript_md") = result.transcript_path)
    /\ [][\A i \in Rows :
            (jobs[i].status # "completed" /\ jobs'[i].status = "completed")
            => /\ pc = "complete"
               /\ jobs[i].id = current_job_id
               /\ Succeeded(result)
               /\ ParseColumn(jobs[i].output_paths) # PyNone
               /\ DictGet(ParseColumn(jobs[i].output_paths), "transcript_md")
                     = result.transcript_path
               /\ jobs'[i].output_paths = jobs[i].output_paths]_vars

\* process() is back from a successful run
C8_Witness ==
    /\ pc = "ret"
    /\ Succeeded(result)
    /\ CurrentRow(jobs).status = "completed"
    /\ DictGet(ParseColumn(CurrentRow(jobs).output_paths), "transcript_md")
          = "/out/abc.md"

\* C9 (StoreSpec): recover_orphaned_jobs(max_retries) changes exactly the
\* rows in 'processing'. Such a row with retry_count < max_retries becomes
\* 'pending' with progress 0 and no error_message and its id is returned;
\* such a row with retry_count >= max_retries becomes 'failed' with the
\* message 'Max retries exceeded after worker crash' and its id is not
\* returned. Every other row is untouched and not returned.
C9_RecoverOrphanedExact ==
    [][(last'.op = "recover_orphaned_jobs") =>
         LET max_retries == last'.args[1]
             recovered == {last'.ret[k] : k \in 1..Len(last'.ret)}
         IN /\ Len(jobs') = Len(jobs)
            /\ recovered \subseteq {jobs[i].id : i \in Rows}
            /\ \A i \in Rows :
                 IF jobs[i].status # "processing" THEN
                     /\ jobs'[i] = jobs[i]
                     /\ jobs[i].id \notin recovered
                 ELSE IF jobs[i].retry_count < max_retries THEN
                     /\ jobs'[i].status = "pending"
                     /\ jobs'[i].progress = 0
                     /\ jobs'[i].error_message = NULL
                     /\ jobs[i].id \in recovered
                 ELSE
                     /\ jobs'[i].status = "failed"
                     /\ jobs'[i].error_message
                           = "Max retries exceeded after worker crash"
                     /\ jobs[i].id \notin recovered]_vars

\* One sweep that re-queued one job and failed another at the limit
C9_Witness ==
    /\ last.op = "recover_orphaned_jobs"
    /\ \E i, k \in Rows :
         /\ jobs[i].status = "failed"
         /\ jobs[i].error_message = "Max retries exceeded after worker crash"
         /\ jobs[i].retry_count = last.args[1]
         /\ jobs[k].status = "pending"
         /\ last.ret = <<jobs[k].id>>

\* C10 (Spec): a job without a video_id is never written as processing by
\* the worker, never reaches the Processor and is never re-queued; it is
\* 'pending' until the worker picks it up, and when process() returns it is
\* 'failed' with the message "Missing video_id", having failed exactly once.
C10_MissingVideoId ==
    \A i \in Rows :
        jobs[i].video_id \in {NULL, ""} =>
            /\ jobs[i].id \notin wrote_processing
            /\ calls[jobs[i].id] = 0
            /\ requeues[jobs[i].id] = 0
            /\ jobs[i].status \in {"pending", "failed"}
            /\ jobs[i].status = "pending" => jobs[i].retry_count = 0
            /\ jobs[i].status = "failed" =>
                  /\ jobs[i].error_message = "Missing video_id"
                  /\ jobs[i].retry_count = 1
            /\ (pc = "ret" /\ current_job_id = jobs[i].id) =>
                  jobs[i].status = "failed"

\* process() is back from a job that has no video_id
C10_Witness ==
    /\ pc = "ret"
    /\ \E i \in Rows :
         /\ jobs[i].id = current_job_id
         /\ jobs[i].video_id = ""
         /\ jobs[i].status = "failed"
         /\ jobs[i].error_message = "Missing video_id"

C12_NoOrphanAtPoll ==
    (crashes > 0 /\ pc = "poll") =>
        \A i \in Rows : jobs[i].status # "processing"

\* C14 (HostSpec): a poll that finds pending jobs takes the one created
\* first; the loop polls only while no process() call is under way; and
\* once a job is taken the loop is not back at its poll before process()
\* has returned.
C14_FifoAdmission ==
    /\ [][(pc = "poll" /\ pc' = "begin") =>
            \E i \in Rows :
                /\ jobs[i].id = current_job_id'
                /\ jobs[i].status = "pending"
                /\ \A k \in 1..(i - 1) : jobs[k].status # "pending"]_vars
    /\ [][(pc = "poll" /\ running /\ \E i \in Rows : jobs[i].status = "pending")
            => pc' \in {"begin", "stopped"}]_vars
    /\ [](pc = "poll" => current_job_id = NULL)
    /\ [][(current_job_id # NULL /\ pc' = "poll") => pc = "ret"]_vars

\* The older of two pending jobs, re-queued after a failure, is taken again
\* ahead of the newer one
C14_Witness ==
    /\ pc = "begin"
    /\ Len(jobs) = 2
    /\ current_job_id = jobs[1].id
    /\ jobs[1].retry_count >= 1
    /\ jobs[1].status = "pending"
    /\ jobs[2].status = "pending"

Completed(j) == HasRow(jobs, j) /\ RowOf(jobs, j).status = "completed"

\* The job is failed for good: retry_count has reached MAX_RETRIES
FailedForGood(j) ==
    /\ HasRow(jobs, j)
    /\ RowOf(jobs, j).status = "failed"
    /\ RowOf(jobs, j).retry_count >= MAX_RETRIES

\* C13 (RecoverSpec): with finitely many kills, each followed by the sweep
\* and a start of the poll loop, every submitted job eventually is
\* completed or failed with retry_count >= MAX_RETRIES.
C13_NoWorkLost ==
    \A j \in JobIds :
        HasRow(jobs, j) ~>
            (Completed(j) \/ FailedForGood(j))

\* The job has failed on every attempt and is failed with the max-retries
\* message, after MAX_RETRIES re-queues and MAX_RETRIES + 1 processor calls
ExhaustedRetries(j) ==
    /\ HasRow(jobs, j)
    /\ RowOf(jobs, j).status = "failed"
    /\ RowOf(jobs, j).error_message
          = "Max retries exceeded (3): WhisperX transcription failed"
    /\ requeues[j] = MAX_RETRIES
    /\ calls[j] = MAX_RETRIES + 1

\* C15 (RunSpec): a job is re-queued at most MAX_RETRIES times and handed to
\* the processor at most MAX_RETRIES + 1 times; a job failed with the
\* max-retries message was re-queued exactly MAX_RETRIES times and
\* attempted MAX_RETRIES + 1 times, and it stays so; and with the loop
\* running every submitted job eventually is completed or, when all its
\* attempts fail, failed in that way.
C15_RetriesTerminate ==
    /\ [](\A i \in Rows :
            /\ requeues[jobs[i].id] <= MAX_RETRIES
            /\ calls[jobs[i].id] <= MAX_RETRIES + 1
            /\ (jobs[i].status = "failed" /\ requeues[jobs[i].id] = MAX_RETRIES)
                  => ExhaustedRetries(jobs[i].id)
            /\ (jobs[i].status = "failed" /\ pc = "poll")
                  => ExhaustedRetries(jobs[i].id))
    /\ [][\A i \in Rows :
            ExhaustedRetries(jobs[i].id) => jobs'[i] = jobs[i]]_vars
    /\ \A j \in JobIds :
         HasRow(jobs, j) ~>
            (Completed(j) \/ ExhaustedRetries(j))

\* A job has used up its retries while another waits behind it
C15_Witness ==
    /\ pc = "poll"
    /\ Len(jobs) = 2
    /\ ExhaustedRetries(jobs[1].id)
    /\ jobs[1].retry_count = MAX_RETRIES + 1
    /\ jobs[2].status = "pending"

\* How often a connection occurs in a list of live connections
Occurrences(list, x) == Cardinality({i \in 1..Len(list) : list[i] = x})

C17_StopLetsJobFinish ==
    /\ [](( /\ pc = "ret"
            /\ stop_state = "waiting"
            /\ stop_job # NULL
            /\ stop_job = current_job_id)
          => LET r == RowOf(jobs, current_job_id)
             IN \/ /\ result # Unset
                   /\ result # NoResult
                   /\ result.status = "success"
                   /\ r.status = "completed"
                   /\ r.progress = 100
                \/ /\ error_msg # NULL
                   /\ r.retry_count = fail_retry_count + 1
                   /\ r.status = (IF fail_retry_count < MAX_RETRIES
                                  THEN "pending" ELSE "failed"))
    /\ [][(stop_state = "waiting" /\ stop_state' = "returned")
            => /\ pc = "stopped"
               /\ current_job_id = NULL
               /\ \A i \in Rows : jobs[i].status # "processing"]_vars
    /\ [][(stop_state = "waiting" /\ stop_state' = "waiting")
            => /\ ~(pc = "poll" /\ pc' = "begin")
               /\ \A i \in Rows :
                     jobs[i].id # stop_job => jobs'[i] = jobs[i]]_vars
    /\ [](stop_state = "waiting" => current_job_id \in {NULL, stop_job})

\* stop() was called while the first job was in process and has returned:
\* that job is completed and the job behind it was never started
C17_Witness ==
    /\ stop_state = "returned"
    /\ stop_kind = "running"
    /\ Len(jobs) = 2
    /\ stop_job = jobs[1].id
    /\ jobs[1].status = "completed"
    /\ jobs[1].progress = 100
    /\ jobs[2].status = "pending"
    /\ calls[jobs[2].id] = 0
    /\ pc = "stopped"

\* C18: start() returns with the poll loop created but not yet run; every
\* stop() call returns; one that finds no loop task or an ended one returns
\* at once, without waiting and without the loop doing anything; once stop()
\* has returned the loop has ended, and an ended loop writes no row.
C18_StopReturns ==
    /\ (stop_state = "waiting") ~> (stop_state = "returned")
    /\ [][(pc = "stopped" /\ pc' # "stopped")
            => /\ pc' = "ready"
               /\ running'
               /\ jobs' = jobs
               /\ current_job_id' = NULL]_vars
    /\ [](stop_state = "waiting" => stop_kind = "running")
    /\ [][(stop_seen' # stop_seen /\ stop_kind' # "running")
            => /\ stop_state' = "returned"
               /\ pc' = "stopped"
               /\ jobs' = jobs]_vars
    /\ []((stop_state = "returned" /\ ~running)
            => /\ pc = "stopped"
               /\ current_job_id = NULL
               /\ written = NoWrite)
    /\ [][(pc = "stopped" /\ pc' = "stopped")
            => \A i \in Rows : jobs'[i] = jobs[i]]_vars

\* stop() has returned from each kind of call: before any start(), with the
\* loop running, and again after the loop had ended
C18_Witness ==
    /\ stop_state = "returned"
    /\ stop_kind = "ended"
    /\ stop_seen = {"unstarted", "running", "ended"}
    /\ pc = "stopped"
    /\ \E i \in Rows : jobs[i].status = "completed"

\* C19: write-then-broadcast. A status write of the worker is followed by its
\* broadcast before anything else happens to the job: a write not yet
\* broadcast exists only at the broadcast step and is what the row holds;
\* every write is made when no earlier write is waiting for its broadcast;
\* every change the worker makes to a row's status or progress is such a
\* write; the broadcast step sends a job_update carrying the status and
\* progress just written and writes nothing; no event is sent at any other
\* step.
C19_WriteThenBroadcast ==
    /\ [](written # NoWrite
           => /\ pc = "bc"
              /\ written.job_id = current_job_id
              /\ HasRow(jobs, current_job_id)
              /\ RowOf(jobs, current_job_id).status = written.status
              /\ RowOf(jobs, current_job_id).progress = written.progress)
    /\ [][written' # NoWrite
            => /\ written = NoWrite
               /\ pc # "bc"
               /\ pc' = "bc"]_vars
    /\ [][\A i \in Rows :
            ( /\ pc # "stopped"
              /\ \/ jobs'[i].status # jobs[i].status
                 \/ jobs'[i].progress # jobs[i].progress
                 \/ jobs'[i].retry_count # jobs[i].retry_count
                 \/ jobs'[i].error_message # jobs[i].error_message )
            => /\ jobs[i].id = current_job_id
               /\ written' = [job_id |-> jobs[i].id,
                              status |-> jobs'[i].status,
                              progress |-> jobs'[i].progress]]_vars
    /\ [][(pc = "bc" /\ pc' # "stopped")
            => /\ written # NoWrite
               /\ written' = NoWrite
               /\ jobs' = jobs
               /\ sent'.type = "job_update"
               /\ sent'.job.id = written.job_id
               /\ sent'.job.status = written.status
               /\ sent'.job.progress = written.progress]_vars
    /\ [][(sent' # sent /\ sent' # NoEvent) => pc = "bc"]_vars

\* The failed write of a job waits for its broadcast; the last event sent
\* reported the write before it
C19_Witness ==
    /\ pc = "bc"
    /\ written # NoWrite
    /\ written.status = "failed"
    /\ sent.type = "job_update"
    /\ sent.job.id = written.job_id
    /\ sent.job.status = "processing"
    /\ sent.job.progress > 0

\* C20: one failed write per failed attempt. The failure handler, entered
\* once for an error result or an exception of process(), writes failed once
\* and that write adds exactly 1 to retry_count; the re-queue after the
\* backoff writes pending and leaves retry_count as it is; the running
\* worker changes retry_count at no other step for a job with a video_id;
\* and as long as no process was killed, a job that is not in process and
\* not completed has a retry_count equal to the number of processor calls
\* made for it, a completed one to that number less one.
C20_OneFailedWritePerFailedAttempt ==
    /\ [][(pc = "fail" /\ pc' # "stopped")
            => /\ pc' = "bc"
               /\ RowOf(jobs', current_job_id).status = "failed"
               /\ RowOf(jobs', current_job_id).retry_count =
                      RowOf(jobs, current_job_id).retry_count + 1]_vars
    /\ [][(pc = "backoff" /\ pc' = "bc")
            => /\ RowOf(jobs', current_job_id).status = "pending"
               /\ RowOf(jobs', current_job_id).retry_count =
                      RowOf(jobs, current_job_id).retry_count]_vars
    /\ [][\A i \in Rows :
            (pc # "stopped" /\ jobs'[i].retry_count # jobs[i].retry_count)
            => /\ jobs'[i].retry_count = jobs[i].retry_count + 1
               /\ jobs'[i].status = "failed"
               /\ jobs[i].id = current_job_id
               /\ \/ pc = "fail"
                  \/ pc = "begin" /\ jobs[i].video_id \in {NULL, ""}]_vars
    /\ [](crashes = 0 =>
            \A i \in Rows :
                jobs[i].video_id \notin {NULL, ""} =>
                    /\ jobs[i].retry_count <= calls[jobs[i].id]
                    /\ jobs[i].retry_count >= calls[jobs[i].id] - 1
                    /\ (jobs[i].id # current_job_id /\ jobs[i].status # "completed")
                          => jobs[i].retry_count = calls[jobs[i].id]
                    /\ jobs[i].status = "completed"
                          => jobs[i].retry_count = calls[jobs[i].id] - 1)

\* Two attempts failed, each counted once, and the second re-queue has just
\* been written
C20_Witness ==
    /\ pc = "bc"
    /\ after = "ret"
    /\ crashes = 0
    /\ written # NoWrite
    /\ written.status = "pending"
    /\ RowOf(jobs, current_job_id).retry_count = 2
    /\ calls[current_job_id] = 2
    /\ requeues[current_job_id] = 2

\* The three fields of output_paths, in the order update_output_paths takes them
PathKeys == <<"transcript_md", "transcript_json", "metadata">>

\* What a field of a job's parsed output_paths holds; None when the column is NULL
PathField(output_paths, k) ==
    IF output_paths = PyNone THEN NULL ELSE DictGet(output_paths, PathKeys[k])

\* C21 as stated: update_output_paths merges. After a call each field holds
\* the value the call gave for it, and a field the call did not give keeps
\* the value stored before (null if none was ever stored).
C21_OutputPathsMerge ==
    last.op = "update_output_paths" =>
        \A k \in 1..3 :
            PathField(read_job(jobs, last.job_id).output_paths, k) =
                (IF last.args[k] # NULL THEN last.args[k]
                 ELSE PathField(ParseColumn(last.before), k))

\* C21: update_output_paths replaces. After a call every field of
\* output_paths holds exactly what that call passed for it: a field the call
\* did not give is null afterwards, whatever was stored before; no other
\* column of any row changes.
C21_OutputPathsReplace ==
    /\ [](last.op = "update_output_paths" =>
            /\ read_job(jobs, last.job_id) # PyNone
            /\ \A k \in 1..3 :
                  PathField(read_job(jobs, last.job_id).output_paths, k) = last.args[k])
    /\ [][\A i \in Rows :
            [jobs'[i] EXCEPT !.output_paths = NULL] =
                [jobs[i] EXCEPT !.output_paths = NULL]]_vars

\* A call that gave only transcript_md has erased the transcript_json and
\* metadata paths stored by the call before it
C21_Witness ==
    /\ last.op = "update_output_paths"
    /\ last.before # NULL
    /\ PathField(ParseColumn(last.before), 2) = "/out/abc.json"
    /\ PathField(ParseColumn(last.before), 3) = "/out/metadata.json"
    /\ last.args = <<"/out/abc.md", NULL, NULL>>
    /\ PathField(read_job(jobs, last.job_id).output_paths, 1) = "/out/abc.md"
    /\ PathField(read_job(jobs, last.job_id).output_paths, 2) = NULL
    /\ PathField(read_job(jobs, last.job_id).output_paths, 3) = NULL

\* C22 as stated: whenever a job re-enters pending, by the failure handler's
\* re-queue or by the recovery sweep, its error_message is null afterwards.
C22_PendingClearsError ==
    [][\A i \in Rows :
         (jobs[i].status # "pending" /\ jobs'[i].status = "pending")
         => jobs'[i].error_message = NULL]_vars

\* C22: only the recovery sweep clears error_message. Its reset of a
\* processing job to pending leaves error_message null; the failure handler's
\* re-queue leaves the text of the failed write in place, and no write of the
\* worker ever sets error_message back to null, so it stays through the
\* retry and a later completion. error_message is non-null only for a job
\* that had a failed write (retry_count >= 1) or that the sweep failed.
C22_OnlySweepClearsError ==
    /\ [][(pc = "backoff" /\ pc' = "bc")
            => /\ RowOf(jobs, current_job_id).status = "failed"
               /\ RowOf(jobs', current_job_id).status = "pending"
               /\ RowOf(jobs, current_job_id).error_message # NULL
               /\ RowOf(jobs', current_job_id).error_message =
                      RowOf(jobs, current_job_id).error_message]_vars
    /\ [][\A i \in Rows :
            (pc = "stopped" /\ jobs[i].status # "pending" /\ jobs'[i].status = "pending")
            => /\ jobs[i].status = "processing"
               /\ jobs'[i].error_message = NULL]_vars
    /\ [][\A i \in Rows :
            (jobs[i].error_message # NULL /\ jobs'[i].error_message = NULL)
            => /\ pc = "stopped"
               /\ jobs[i].status = "processing"
               /\ jobs'[i].status = "pending"]_vars
    /\ [](\A i \in Rows :
            jobs[i].error_message # NULL
            => \/ jobs[i].retry_count >= 1
               \/ jobs[i].error_message = "Max retries exceeded after worker crash")

\* The handler has just re-queued a job after its first failure and the row,
\* now pending, still carries the text of the failed write
C22_Witness ==
    /\ pc = "bc"
    /\ written # NoWrite
    /\ written.status = "pending"
    /\ requeues[current_job_id] = 1
    /\ RowOf(jobs, current_job_id).status = "pending"
    /\ RowOf(jobs, current_job_id).error_message =
           "WhisperX transcription failed (will retry, attempt 1/3)"

\* A step of CallSpec that is the call named op
Called(op) == ops' = ops + 1 /\ last'.op = op

\* C23: read_job, update_job_status and update_output_paths called with an id
\* that has no row return None (the not-found signal) and leave the table as
\* it was: no row is added and no row is changed.
C23_MissingIdIsNotFound ==
    [][( /\ \/ Called("read_job")
            \/ Called("update_job_status")
            \/ Called("update_output_paths")
         /\ \A i \in Rows : jobs[i].id # last'.job_id )
       => /\ last'.ret = PyNone
          /\ ~last'.raised
          /\ jobs' = jobs]_vars

\* update_job_status was called for an id without a row while another job,
\* in process, is in the table
C23_Witness ==
    /\ last.op = "update_job_status"
    /\ last.args = <<"failed", 100, "api error">>
    /\ last.job_id = NoSuchId
    /\ last.ret = PyNone
    /\ Len(jobs) = 1
    /\ jobs[1].id # NoSuchId
    /\ jobs[1].status = "processing"
    /\ jobs[1].retry_count = 0

\* C24: create_job under an id that has a row raises the duplicate-id error
\* (sqlite3.IntegrityError) and leaves every row, the existing one included,
\* as it was; under a new id it appends one pending row with progress 0 and
\* retry_count 0 and changes no other row; no two rows ever share an id.
C24_CreateDuplicateId ==
    /\ [][Called("create_job")
            => IF \E i \in Rows : jobs[i].id = last'.job_id
               THEN /\ last'.raised
                    /\ jobs' = jobs
               ELSE /\ ~last'.raised
                    /\ Len(jobs') = Len(jobs) + 1
                    /\ \A i \in Rows : jobs'[i] = jobs[i]
                    /\ jobs'[Len(jobs')].id = last'.job_id
                    /\ jobs'[Len(jobs')].status = "pending"
                    /\ jobs'[Len(jobs')].progress = 0
                    /\ jobs'[Len(jobs')].retry_count = 0]_vars
    /\ [](\A i, k \in Rows : jobs[i].id = jobs[k].id => i = k)

\* create_job was called under the id of a job that had failed once since it
\* was created: the call raised and the row is as the failed write left it
C24_Witness ==
    /\ last.op = "create_job"
    /\ last.raised
    /\ Len(jobs) = 1
    /\ jobs[1].id = last.job_id
    /\ jobs[1].status = "failed"
    /\ jobs[1].progress = 50
    /\ jobs[1].retry_count = 1
    /\ jobs[1].error_message = "api error"

\* C28: update_job_status(id, 'failed', progress, error_message) on an
\* existing job sets status to failed, stores the given error_message, adds
\* exactly 1 to retry_count and changes no other column (progress,
\* started_at, completed_at, output_paths), whatever progress is passed; an
\* update to pending or to processing leaves retry_count and error_message as
\* they were; no call changes the row of another job.
C28_FailedWriteFrame ==
    [][Called("update_job_status")
       => \A i \in Rows :
            IF jobs[i].id # last'.job_id THEN jobs'[i] = jobs[i]
            ELSE /\ last'.args[1] = "failed"
                    => jobs'[i] = [jobs[i] EXCEPT
                                      !.status = "failed",
                                      !.error_message = last'.args[3],
                                      !.retry_count = jobs[i].retry_count + 1]
                 /\ last'.args[1] \in {"pending", "processing"}
                    => /\ jobs'[i].status = last'.args[1]
                       /\ jobs'[i].retry_count = jobs[i].retry_count
                       /\ jobs'[i].error_message = jobs[i].error_message]_vars

\* A job at progress 50 was written as failed with a progress argument of
\* 100: the row is failed, counted once, and still at 50
C28_Witness ==
    /\ last.op = "update_job_status"
    /\ last.args = <<"failed", 100, "api error">>
    /\ Len(jobs) = 1
    /\ jobs[1].id = last.job_id
    /\ jobs[1].status = "failed"
    /\ jobs[1].progress = 50
    /\ jobs[1].started_at # NULL
    /\ jobs[1].retry_count = 1
    /\ jobs[1].error_message = "api error"

\* C29: update_job_status(id, 'completed', p) on an existing job sets status
\* to completed and progress to 100 for every p, stamps completed_at and
\* changes no other column: error_message, retry_count, started_at and
\* output_paths stay as they were.
C29_CompletedWrite ==
    [][(Called("update_job_status") /\ last'.args[1] = "completed")
       => \A i \in Rows :
            jobs[i].id = last'.job_id
            => /\ jobs'[i].progress = 100
               /\ jobs'[i].completed_at = "CURRENT_TIMESTAMP"
               /\ jobs'[i] = [jobs[i] EXCEPT
                                 !.status = "completed",
                                 !.progress = 100,
                                 !.completed_at = "CURRENT_TIMESTAMP"]]_vars

\* A job that had failed at progress 50 was written as completed with the
\* default progress of 0: it is at 100 and keeps its error_message and count
C29_Witness ==
    /\ last.op = "update_job_status"
    /\ last.args = <<"completed", 0, NULL>>
    /\ Len(jobs) = 1
    /\ jobs[1].id = last.job_id
    /\ jobs[1].status = "completed"
    /\ jobs[1].progress = 100
    /\ jobs[1].completed_at = "CURRENT_TIMESTAMP"
    /\ jobs[1].error_message = "api error"
    /\ jobs[1].retry_count = 1

\* C30 as stated: whatever calls the JobStore receives, with progress
\* arguments in [0, 100], every row has progress 100 exactly when its status
\* is completed.
C30_StoreCompletedIffProgress100 ==
    \A i \in Rows :
        /\ jobs[i].status = "completed" => jobs[i].progress = 100
        /\ jobs[i].progress = 100 => jobs[i].status = "completed"

\* C27: for every job the worker drives, progress is one of 0, 10, ..., 100;
\* a write to a job that is processing (a further checkpoint, the completed
\* write or the failed write of the same attempt) never lowers it; and every
\* re-queue to pending, by the failure handler or by the recovery sweep,
\* leaves it at 0.
C27_ProgressWithinAttempt ==
    /\ [](\A i \in Rows :
            /\ jobs[i].progress >= 0
            /\ jobs[i].progress <= 100
            /\ jobs[i].progress % 10 = 0)
    /\ [][\A i \in Rows :
            (jobs[i].status = "processing" /\ jobs'[i].status # "pending")
            => jobs'[i].progress >= jobs[i].progress]_vars
    /\ [][\A i \in Rows :
            (jobs[i].status # "pending" /\ jobs'[i].status = "pending")
            => jobs'[i].progress = 0]_vars
    /\ [][\A i \in Rows :
            jobs'[i].progress < jobs[i].progress
            => /\ jobs'[i].status \in {"pending", "processing"}
               /\ jobs'[i].progress = 0
               /\ jobs[i].status \in {"processing", "failed", "pending"}]_vars

\* An attempt failed after its last checkpoint, the failed write was
\* broadcast at progress 90, and the re-queue has just put the job at 0
C27_Witness ==
    /\ pc = "bc"
    /\ written # NoWrite
    /\ written.status = "pending"
    /\ written.progress = 0
    /\ sent.type = "job_update"
    /\ sent.job.id = current_job_id
    /\ sent.job.status = "failed"
    /\ sent.job.progress = 90
    /\ RowOf(jobs, current_job_id).progress = 0

\* C26 as stated: within one processing attempt started_at is written exactly
\* once and completed_at exactly once, at the completed transition: no
\* attempt stamps either of them a second time, and an attempt that has
\* written completed has stamped each of them once.
C26_StampedOncePerAttempt ==
    /\ stamps.started_at <= 1
    /\ stamps.completed_at <= 1
    /\ (pc = "bc" /\ written # NoWrite /\ written.status = "completed")
          => (stamps.started_at = 1 /\ stamps.completed_at = 1)

\* _process_job returns to the loop, by its return or by an exception
ProcessJobReturns ==
    current_job_id # NULL /\ current_job_id' = NULL /\ crashes' = crashes

ReferenceDelay == [r \in 0..2 |-> IF r = 0 THEN 5 ELSE IF r = 1 THEN 10 ELSE 20]

\* C31 (Spec): in the retry branch of the failure handler the sleep between
\* the failed write and the re-queue write is 5, 10, 20 seconds for a
\* retry_count of 0, 1, 2 read before the failed write; from the failed
\* write to the end of the sleep the job stays failed; the step that ends the
\* sleep writes pending at progress 0 and nothing else, and the next step of
\* the worker broadcasts that write.
C31_BackoffThenRequeue ==
    /\ [](pc = "backoff" =>
            /\ fail_retry_count \in 0..2
            /\ delay = ReferenceDelay[fail_retry_count]
            /\ RowOf(jobs, current_job_id).status = "failed"
            /\ RowOf(jobs, current_job_id).retry_count = fail_retry_count + 1)
    /\ []((pc = "bc" /\ after = "backoff") =>
            /\ RowOf(jobs, current_job_id).status = "failed"
            /\ delay = ReferenceDelay[fail_retry_count])
    /\ [][(pc = "backoff" /\ pc' # "backoff" /\ crashes' = crashes) =>
            /\ RowOf(jobs', current_job_id).status = "pending"
            /\ RowOf(jobs', current_job_id).progress = 0
            /\ RowOf(jobs', current_job_id).retry_count = fail_retry_count + 1
            /\ pc' = "bc"
            /\ after' = "ret"]_vars
    /\ [][(pc = "bc" /\ after = "ret" /\ delay > 0 /\ pc' # "bc" /\ crashes' = crashes) =>
            /\ sent'.type = "job_update"
            /\ sent'.job.id = current_job_id
            /\ sent'.job.status = "pending"
            /\ sent'.job.progress = 0
            /\ pc' = "ret"]_vars
    /\ [][(jobs' # jobs /\ pc' = "bc" /\ written' # NoWrite /\ written'.status = "pending")
            => pc = "backoff"]_vars

\* The third failure of a job: the handler sleeps 20 seconds with the job failed
C31_Witness ==
    /\ pc = "backoff"
    /\ delay = 20
    /\ fail_retry_count = 2
    /\ RowOf(jobs, current_job_id).status = "failed"

\* The status changes the worker and the recovery sweep make
StatusChanges ==
    {<<"pending", "processing">>, <<"pending", "failed">>,
     <<"processing", "completed">>, <<"processing", "failed">>,
     <<"failed", "pending">>, <<"processing", "pending">>}

\* _handle_job_failure has written jobs[i] as failed in its retry branch and
\* has not written it back to pending yet
InRetryWait(i) ==
    /\ current_job_id = jobs[i].id
    /\ \/ pc = "backoff"
       \/ pc = "bc" /\ after = "backoff"

\* jobs[i] is completed, or failed with no re-queue by the handler to come
Terminal(i) ==
    \/ jobs[i].status = "completed"
    \/ jobs[i].status = "failed" /\ ~InRetryWait(i)

\* C32 (Spec): every status change of a job made by the worker or by the
\* recovery sweep is one of pending to processing, pending to failed (only
\* for a job without video_id), processing to completed, processing to
\* failed, failed to pending (only by the handler's re-queue) and processing
\* to pending (only by the sweep); a job that is completed, or failed with no
\* re-queue by the handler to come, keeps its status through every step of
\* the worker, kill, restart and sweep; and the Processor is invoked only for
\* a job in processing, so never again for such a job.
C32_StatusTransitions ==
    /\ [][\A i \in Rows :
            jobs'[i].status # jobs[i].status =>
                /\ <<jobs[i].status, jobs'[i].status>> \in StatusChanges
                /\ (jobs[i].status = "pending" /\ jobs'[i].status = "failed")
                      => jobs[i].video_id = ""
                /\ (jobs[i].status = "failed" /\ jobs'[i].status = "pending")
                      => (pc = "backoff" /\ current_job_id = jobs[i].id)
                /\ (jobs[i].status = "processing" /\ jobs'[i].status = "pending")
                      => pc = "stopped"]_vars
    /\ [][\A i \in Rows : Terminal(i) => jobs'[i].status = jobs[i].status]_vars
    /\ [][\A i \in Rows :
            calls'[jobs[i].id] # calls[jobs[i].id] =>
                (jobs[i].status = "processing" /\ ~Terminal(i))]_vars
    /\ [][Len(jobs') >= Len(jobs)]_vars

\* A job that used up its retries is failed for good while the loop, still
\* running, has polled again and found nothing to do
C32_Witness ==
    /\ Len(jobs) = 1
    /\ jobs[1].status = "failed"
    /\ jobs[1].retry_count = MAX_RETRIES + 1
    /\ calls[jobs[1].id] = MAX_RETRIES + 1
    /\ pc = "idle"
    /\ running

\* C34 (ProcessSpec): process(job_id) for an id without a row takes one
\* step to its return: that step writes nothing to the table, sends nothing,
\* starts no Processor call and raises nothing (the failure handler is not
\* entered); all through the call nothing is written or sent; and from the
\* return control is back at the test of the loop.
C34_MissingJobAbortsSilently ==
    /\ [][(pc = "begin" /\ ~HasRow(jobs, current_job_id)) =>
            /\ pc' = "ret"
            /\ jobs' = jobs
            /\ active_connections' = active_connections
            /\ sent' = sent
            /\ written' = written
            /\ calls' = calls
            /\ handler_from' = "none"
            /\ error_msg' = NULL]_vars
    /\ []((current_job_id # NULL /\ ~HasRow(jobs, current_job_id)) =>
            /\ pc \in {"begin", "ret"}
            /\ sent = NoEvent
            /\ written = NoWrite
            /\ handler_from = "none")
    /\ [][(pc = "ret" /\ pc' # "ret" /\ ~HasRow(jobs, current_job_id)) =>
            /\ pc' = "poll"
            /\ current_job_id' = NULL
            /\ jobs' = jobs]_vars

\* process() was called for an id no row has while the table holds a job,
\* and is about to return
C34_Witness ==
    /\ pc = "ret"
    /\ current_job_id = NoSuchId
    /\ Len(jobs) = 1
    /\ jobs[1].status = "pending"
    /\ sent = NoEvent

\* The worker writes the job it processes as processing at progress p
WritesProcessing(p) ==
    /\ pc # "bc"
    /\ pc' = "bc"
    /\ written' # NoWrite
    /\ written'.status = "processing"
    /\ written'.progress = p
    /\ RowOf(jobs', current_job_id).status = "processing"
    /\ RowOf(jobs', current_job_id).progress = p

\* The row of the job in process before a step is processing at progress p
WasProcessingAt(p) ==
    /\ RowOf(jobs, current_job_id).status = "processing"
    /\ RowOf(jobs, current_job_id).progress = p

\* The order of the checkpoints, the write at 0 included
C35_Order ==
    /\ [][WritesProcessing(0) => RowOf(jobs, current_job_id).status = "pending"]_vars
    /\ [][WritesProcessing(10) => WasProcessingAt(0)]_vars
    /\ [][WritesProcessing(30) => WasProcessingAt(10)]_vars
    /\ [][WritesProcessing(40) => WasProcessingAt(30)]_vars
    /\ [][WritesProcessing(50) => WasProcessingAt(40)]_vars
    /\ [][WritesProcessing(60) => WasProcessingAt(50)]_vars
    /\ [][WritesProcessing(70) => WasProcessingAt(60)]_vars
    /\ [][WritesProcessing(80) => WasProcessingAt(70)]_vars
    /\ [][WritesProcessing(90) => WasProcessingAt(80)]_vars
    /\ [][(\E p \in 0..100 : WritesProcessing(p)) =>
            \E p \in {0, 10, 30, 40, 50, 60, 70, 80, 90} : WritesProcessing(p)]_vars

\* Each write of the worker is followed by its broadcast, and process_video
\* is started once in a process() call, after the write at 50
C35_BroadcastAndInvoke ==
    /\ [][(/\ HasRow(jobs, current_job_id)
            /\ RowOf(jobs', current_job_id) # RowOf(jobs, current_job_id)
            /\ pc # "check") => pc' = "bc"]_vars
    /\ [][(pc = "bc" /\ pc' # "bc" /\ crashes' = crashes) =>
            /\ sent'.type = "job_update"
            /\ sent'.job.status = RowOf(jobs, current_job_id).status
            /\ sent'.job.progress = RowOf(jobs, current_job_id).progress]_vars
    /\ [][calls' # calls =>
            /\ WasProcessingAt(50)
            /\ result = Unset
            /\ stamps.started_at = 4
            /\ pc = "invoke"
            /\ pc' = "proc"]_vars
    /\ [][(pc' = "invoke" /\ pc # "invoke") => (pc = "bc" /\ stamps.started_at = 4)]_vars

\* C35 as stated: processing at 0 first, then 10, 30, 40, 50 before the
\* Processor is invoked, then 60, 70, 80, 90 while the Processor runs, that
\* is before it has returned; each write is followed by a broadcast and the
\* Processor is invoked at most once per process() call.
C35_CheckpointsWhileProcessorRuns ==
    /\ C35_Order
    /\ C35_BroadcastAndInvoke
    /\ [][(\E p \in {10, 30, 40, 50} : WritesProcessing(p)) => calls' = calls /\ pc # "proc"]_vars
    /\ [][(\E p \in {60, 70, 80, 90} : WritesProcessing(p)) => result = Unset]_vars

\* C35 (Spec): processing at 0 is written first, then 10, 30, 40, 50 in that
\* order before the Processor is invoked; 60, 70, 80, 90 are written in that
\* order only after the Processor has returned its result, and only while
\* the Worker is still running; each write is followed by a broadcast of the
\* row as written, and the Processor is invoked once per process() call.
C35_CheckpointsAfterProcessorReturns ==
    /\ C35_Order
    /\ C35_BroadcastAndInvoke
    /\ [][(\E p \in {0, 10, 30, 40, 50} : WritesProcessing(p)) =>
            (result = Unset /\ calls' = calls /\ stamps.started_at < 4)]_vars
    /\ [][(\E p \in {60, 70, 80, 90} : WritesProcessing(p)) =>
            (result # Unset /\ running /\ calls' = calls /\ stamps.started_at >= 4)]_vars
    /\ [](pc = "proc" => (WasProcessingAt(50) /\ result = Unset))

\* The Processor has returned a result and the worker has then written 60
C35_Witness ==
    /\ pc = "bc"
    /\ written # NoWrite
    /\ written.status = "processing"
    /\ written.progress = 60
    /\ result # Unset
    /\ calls[current_job_id] = 1

\* C36 (StoreSpec): recover_orphaned_jobs changes no field of a row other
\* than status, progress and error_message; it leaves the retry_count of
\* every row as it was, also of the rows it re-queues or fails; and a row
\* that was pending, completed or failed is the same row afterwards.
C36_RecoverFrame ==
    [][(last'.op = "recover_orphaned_jobs" /\ ops' = ops + 1) =>
         /\ Len(jobs') = Len(jobs)
         /\ \A i \in Rows :
              /\ jobs'[i] = [jobs[i] EXCEPT !.status = jobs'[i].status,
                                            !.progress = jobs'[i].progress,
                                            !.error_message = jobs'[i].error_message]
              /\ jobs'[i].retry_count = jobs[i].retry_count
              /\ jobs[i].status \in {"pending", "completed", "failed"}
                    => jobs'[i] = jobs[i]]_vars

\* A sweep has re-queued a job that had failed once before the kill: its
\* retry_count is still 1
C36_Witness ==
    /\ last.op = "recover_orphaned_jobs"
    /\ \E i \in Rows :
         /\ last.ret = <<jobs[i].id>>
         /\ jobs[i].status = "pending"
         /\ jobs[i].retry_count = 1

\* C37 as stated: after any sequence of start() and stop() calls on one
\* worker, start() twice in a row included, at most one poll loop task is
\* alive.
C37_AtMostOneLoop == LiveLoops <= 1

\* C38 as stated: once a process() call has written its job as completed,
\* the job is completed for the rest of the call, also when the read of the
\* broadcast that follows the write raises; and no step of the worker takes
\* a completed job to another status.
C38_CompletedIsFinal ==
    /\ []((current_job_id # NULL /\ stamps.completed_at > 0) =>
            RowOf(jobs, current_job_id).status = "completed")
    /\ [][\A i \in Rows :
            jobs[i].status = "completed" => jobs'[i].status = "completed"]_vars

\* C39 (HubSpec): connect(c) whose accept() raises leaves the live list as it
\* was; connect(c) whose accept() returns appends c at the end; a connection
\* enters the live list by no other step; and a broadcast calls send_json
\* only on connections of the live list, so a connection whose handshake
\* failed is sent nothing.
C39_AttachAfterHandshake ==
    /\ [][(last'.op = "connect" /\ ~last'.args[2]) =>
            active_connections' = active_connections]_vars
    /\ [][(last'.op = "connect" /\ last'.args[2] /\ active_connections' # active_connections) =>
            active_connections' = active_connections \o <<last'.args[1]>>]_vars
    /\ [][\A c \in Conns :
            (InList(active_connections', c) /\ ~InList(active_connections, c)) =>
                (last'.op = "connect" /\ last'.args = <<c, TRUE>>)]_vars
    /\ [](last.op = "broadcast" =>
            \A k \in 1..Len(last.ret.attempted) :
                InList(last.before, last.ret.attempted[k]))

\* The handshake of a connection has just raised while another connection
\* is live: the live list holds the other one only
C39_Witness ==
    /\ last.op = "connect"
    /\ ~last.args[2]
    /\ Len(active_connections) = 1
    /\ ~InList(active_connections, last.args[1])
    /\ last.before = active_connections

\* C40 (RunSpec): while _handle_job_failure sleeps out a retry backoff no
\* job is in processing, and no step taken in that time moves a job to
\* processing, starts the Processor or changes the job in process; from the
\* failed write of the retry branch until process() returns the loop is not
\* at its poll; and when it polls again the job has been written back to
\* pending and that write has been broadcast.
C40_LoopWaitsOutBackoff ==
    /\ [](pc = "backoff" => \A i \in Rows : jobs[i].status # "processing")
    /\ [][pc = "backoff" =>
            /\ calls' = calls
            /\ current_job_id' = current_job_id
            /\ pc' \in {"backoff", "bc"}
            /\ \A i \in Rows : jobs'[i].status # "processing"]_vars
    /\ [](delay > 0 => pc \in {"bc", "backoff", "ret"})
    /\ [][(delay > 0 /\ pc' = "poll") =>
            /\ pc = "ret"
            /\ RowOf(jobs, current_job_id).status = "pending"
            /\ RowOf(jobs, current_job_id).progress = 0
            /\ sent.type = "job_update"
            /\ sent.job.id = current_job_id
            /\ sent.job.status = "pending"]_vars

\* The handler sleeps out the backoff of the first job while a second job
\* is pending and untouched
C40_Witness ==
    /\ pc = "backoff"
    /\ Len(jobs) = 2
    /\ current_job_id = jobs[1].id
    /\ jobs[1].status = "failed"
    /\ jobs[2].status = "pending"
    /\ calls[jobs[2].id] = 0

\* C33 as stated: when connect and disconnect calls run at the send_json
\* suspensions of a broadcast, the broadcast has, when it returns, called
\* send_json exactly once on every connection that was live from its start
\* to its end, and the live list then holds none of the connections whose
\* send raised.
C33_BroadcastUnderAttachDetach ==
    [][(bcast # NoBroadcast /\ bcast' = NoBroadcast) =>
         /\ \A c \in last'.stable : Occurrences(last'.attempted, c) = 1
         /\ \A c \in Members(last'.failed) : ~InList(active_connections', c)]_vars

====
